---- MODULE Spec2Model ----
(***************************************************************************)
(* Model of the PowerWorld CUA backend: the extraction pipeline            *)
(* (backend/app/api/anthropic_processor.py), the job runners               *)
(* (bus_service.py, contingency_service.py, cua/agent_service.py), the     *)
(* per-connection session coordinator (websocket/handler.py) and the       *)
(* connection registry (websocket/manager.py).                             *)
(***************************************************************************)
EXTENDS Integers, Sequences, FiniteSets, TLC

(***************************************************************************)
(* Part 1: the extraction pipeline.                                        *)
(*                                                                         *)
(* The oracle's response text is a sequence of lexical tokens:             *)
(*   "F"  a ``` fence            "L"  {            "R"  }                  *)
(*   "K"  the schema key with its colon, e.g. "buses":                     *)
(*   "A"  an array literal [...] with no brace inside                      *)
(*   "x"  prose (not JSON)                                                 *)
(***************************************************************************)
VARIABLES xvariant, xoracle, xres, xpc

xvars == <<xvariant, xoracle, xres, xpc>>

\* The connection registry (ConnectionManager) and the calls made on it.
VARIABLES active_connections, lock, sockets, calls, lastcall, ncalls,
          joined, left

rvars == <<active_connections, lock, sockets, calls, lastcall, ncalls,
           joined, left>>

\* One runner object on its own: its fields, the list objects it refers to,
\* the stream_log tasks it scheduled, and what an observer of it has seen.
VARIABLES runner, observed

nvars == <<runner, observed>>

\* The trajectories directory: the wall clock, the runs that use the
\* directory and the image files in it.
VARIABLES clock, runs, files

avars == <<clock, runs, files>>

\* One extraction call seen from the oracle's side: its input images and the
\* requests it posts.
VARIABLES req

qvars == <<req>>

cvars == <<nvars, avars, qvars>>

MaxTextLen == 5

Tokens == {"F", "L", "R", "K", "A", "x"}

Variants == {"bus", "contingency", "multi"}

\* Longer responses: a fenced object (the end-to-end scenario), a fenced
\* block that is not JSON around or before an object with the key.
ScenarioTexts ==
    {<<"F", "L", "K", "A", "R", "F">>,
     <<"x", "F", "L", "K", "A", "R", "F", "x">>,
     <<"F", "L", "L", "K", "A", "R", "R", "F">>,
     <<"F", "L", "x", "R", "F", "L", "K", "A", "R">>,
     <<"x", "x", "L", "K", "A", "R", "x", "x">>}

Texts == UNION {[1..n -> Tokens] : n \in 0..MaxTextLen} \cup ScenarioTexts

StatusCodes == {"401", "500"}

\* The bodies of a non-2xx response (e.response.text): empty, prose, or an
\* object with the schema key.
ErrorBodies == {<<>>, <<"x">>, <<"L", "K", "A", "R">>}

\* The outcomes of the single HTTP call to the oracle: a non-2xx status (text
\* is the body of the error response), a transport failure, a body with no
\* content block, a content block with text.
OracleOutcomes ==
    {[kind |-> "http_error", code |-> c, text |-> b] :
        c \in StatusCodes, b \in ErrorBodies}
    \cup {[kind |-> "transport", code |-> "none", text |-> <<>>],
          [kind |-> "empty", code |-> "none", text |-> <<>>]}
    \cup {[kind |-> "text", code |-> "none", text |-> t] : t \in Texts}

NoVal == [t |-> "none", m |-> <<>>]

\* json.loads on a token sequence: a value is an array literal, {} or
\* {"key": value}; anything else raises JSONDecodeError.
RECURSIVE IsJSON(_)
IsJSON(s) ==
    \/ s = <<"A">>
    \/ /\ Len(s) >= 2
       /\ s[1] = "L"
       /\ s[Len(s)] = "R"
       /\ \/ Len(s) = 2
          \/ /\ Len(s) >= 4
             /\ s[2] = "K"
             /\ IsJSON(SubSeq(s, 3, Len(s) - 1))

RECURSIVE JSONValue(_)
JSONValue(s) ==
    IF s = <<"A">> THEN [t |-> "list", m |-> <<>>]
    ELSE IF Len(s) = 2 THEN [t |-> "obj", m |-> <<>>]
    ELSE [t |-> "obj", m |-> <<JSONValue(SubSeq(s, 3, Len(s) - 1))>>]

\* json.loads: the parsed value, or the JSONDecodeError it raises.
json_loads(s) ==
    IF IsJSON(s) THEN [exc |-> "none", val |-> JSONValue(s)]
    ELSE [exc |-> "JSONDecodeError", val |-> NoVal]

\* len(data.get(key, [])) as the log lines evaluate it: a parsed value that
\* is not a dict has no .get and raises AttributeError.
LenOfKey(v) == IF v.t = "obj" THEN "none" ELSE "AttributeError"

NoMatch == <<>>

SetMin(S) == CHOOSE m \in S : \A o \in S : m <= o

SetMax(S) == CHOOSE m \in S : \A o \in S : m >= o

\* re.search(r'```(?:json)?\s*(\{.*?\})\s*```', text, re.DOTALL): group 1 of
\* the leftmost match, the lazy .*? ending at the first } that a fence follows.
FenceStarts(s) ==
    {i \in 1..Len(s) :
        /\ s[i] = "F"
        /\ i + 1 <= Len(s)
        /\ s[i + 1] = "L"
        /\ \E j \in (i + 2)..(Len(s) - 1) : s[j] = "R" /\ s[j + 1] = "F"}

FenceGroup(s) ==
    IF FenceStarts(s) = {} THEN NoMatch
    ELSE LET i == SetMin(FenceStarts(s))
             j == SetMin({jj \in (i + 2)..(Len(s) - 1) :
                             s[jj] = "R" /\ s[jj + 1] = "F"})
         IN SubSeq(s, i + 1, j)

NonBrace(s, lo, hi) == \A p \in lo..hi : s[p] \notin {"L", "R"}

\* re.search(r'\{[^{}]*"buses"[^{}]*\[.*?\][^{}]*\}', text, re.DOTALL) (and the
\* same pattern with "contingencies"): the candidates for a start i are the
\* positions <<k, a, b, j>> of the key, the opening array, the closing array
\* and the closing brace.
KeyCands(s, i) ==
    {c \in (1..Len(s)) \X (1..Len(s)) \X (1..Len(s)) \X (1..Len(s)) :
        /\ i < c[1] /\ c[1] < c[2] /\ c[2] <= c[3] /\ c[3] < c[4]
        /\ s[c[1]] = "K" /\ s[c[2]] = "A" /\ s[c[3]] = "A" /\ s[c[4]] = "R"
        /\ NonBrace(s, i + 1, c[2])
        /\ NonBrace(s, c[3], c[4] - 1)}

\* The backtracking order: greedy [^{}]* takes the last key and the last
\* opening array, lazy .*? the first closing array.
KeyPick(s, i) ==
    LET C == KeyCands(s, i)
        k == SetMax({c[1] : c \in C})
        a == SetMax({c[2] : c \in {d \in C : d[1] = k}})
        b == SetMin({c[3] : c \in {d \in C : d[1] = k /\ d[2] = a}})
    IN CHOOSE c \in C : c[1] = k /\ c[2] = a /\ c[3] = b

KeyStartsSingle(s) == {i \in 1..Len(s) : s[i] = "L" /\ KeyCands(s, i) # {}}

KeyMatchSingle(s) ==
    IF KeyStartsSingle(s) = {} THEN NoMatch
    ELSE LET i == SetMin(KeyStartsSingle(s))
         IN SubSeq(s, i, KeyPick(s, i)[4])

\* re.search(r'\{.*"contingencies".*\}', text, re.DOTALL): greedy, from the
\* first { that a key and then a } follow, to the last such }.
KeyEndsMulti(s, i) ==
    {j \in (i + 2)..Len(s) : s[j] = "R" /\ \E k \in (i + 1)..(j - 1) : s[k] = "K"}

KeyStartsMulti(s) == {i \in 1..Len(s) : s[i] = "L" /\ KeyEndsMulti(s, i) # {}}

KeyMatchMulti(s) ==
    IF KeyStartsMulti(s) = {} THEN NoMatch
    ELSE LET i == SetMin(KeyStartsMulti(s))
         IN SubSeq(s, i, SetMax(KeyEndsMulti(s, i)))

KeyMatch(variant, s) ==
    IF variant = "multi" THEN KeyMatchMulti(s) ELSE KeyMatchSingle(s)

RawLimit == 500

Take(s, n) == SubSeq(s, 1, IF Len(s) < n THEN Len(s) ELSE n)

NoError == <<>>

\* The raw_response field: absent, or text_response[:500].
NoRaw == <<>>

RawResponse(text) == <<Take(text, RawLimit)>>

\* {<schema-key>: []}, the data of every error-shaped result.
EmptyKeyList == [t |-> "obj", m |-> <<[t |-> "list", m |-> <<>>]>>]

Returned(v) ==
    [exc |-> "none", code |-> "none", val |-> v, error |-> NoError, raw |-> NoRaw]

\* An exception in flight: its class and, for HTTPStatusError, the status code.
RaisedWith(e, c) ==
    [exc |-> e, code |-> c, val |-> NoVal, error |-> NoError, raw |-> NoRaw]

Raised(e) == RaisedWith(e, "none")

\* No extraction result (yet).
NoResult == Raised("unset")

ErrorShape(err, r) ==
    [exc |-> "none", code |-> "none", val |-> EmptyKeyList, error |-> err, raw |-> r]

\* The return after a successful json.loads. The direct parse of every
\* variant, and the fenced parse of the bus variant, first format a log line
\* with len(data.get(key, [])).
ReturnParsed(logsLen, p) ==
    IF logsLen /\ LenOfKey(p.val) # "none" THEN Raised(LenOfKey(p.val))
    ELSE Returned(p.val)

\* Strategies 2 and 3 and the failure shape: the body of
\* `except json.JSONDecodeError`. A json.loads in here is guarded by no inner
\* handler, so its JSONDecodeError leaves the block.
FallbackParse(variant, text) ==
    LET g == FenceGroup(text)
        m == KeyMatch(variant, text)
    IN IF g # NoMatch
       THEN IF json_loads(g).exc = "none"
            THEN ReturnParsed(variant = "bus", json_loads(g))
            ELSE Raised(json_loads(g).exc)
       ELSE IF m # NoMatch
       THEN IF json_loads(m).exc = "none"
            THEN ReturnParsed(FALSE, json_loads(m))
            ELSE Raised(json_loads(m).exc)
       ELSE ErrorShape(<<"Could not parse response">>, RawResponse(text))

\* The inner try: strategy 1, then the JSONDecodeError handler.
ParseResponse(variant, text) ==
    IF json_loads(text).exc = "none"
    THEN ReturnParsed(TRUE, json_loads(text))
    ELSE IF json_loads(text).exc = "JSONDecodeError"
    THEN FallbackParse(variant, text)
    ELSE Raised(json_loads(text).exc)

\* The body of the outer try without raise_for_status: the body of a non-2xx
\* response is parsed like any other.
CallAndParse_NoStatusCheck(variant, o) ==
    CASE o.kind = "transport" -> Raised("ConnectError")
      [] o.kind = "empty" -> ErrorShape(<<"Empty response from Anthropic">>, NoRaw)
      [] OTHER -> ParseResponse(variant, o.text)

\* The body of the outer try: the request, raise_for_status, the content
\* block and the parse.
CallAndParse(variant, o) ==
    CASE o.kind = "transport" -> Raised("ConnectError")
      [] o.kind = "http_error" -> RaisedWith("HTTPStatusError", o.code)
      [] o.kind = "empty" -> ErrorShape(<<"Empty response from Anthropic">>, NoRaw)
      [] OTHER -> ParseResponse(variant, o.text)

\* An outer try with the `except httpx.HTTPStatusError` handler alone.
OuterHandlers_HttpOnly(r) ==
    IF r.exc = "HTTPStatusError"
    THEN ErrorShape(<<"API error", r.code>>, NoRaw)
    ELSE r

\* The handlers of the outer try: `except httpx.HTTPStatusError` and
\* `except Exception`.
OuterHandlers(r) ==
    IF r.exc = "none" THEN r
    ELSE IF r.exc = "HTTPStatusError"
    THEN ErrorShape(<<"API error", r.code>>, NoRaw)
    ELSE ErrorShape(<<"str", r.exc>>, NoRaw)

\* extract_bus_data / extract_contingency_data / extract_contingency_data_multi
extract(variant, o) == OuterHandlers(CallAndParse(variant, o))

(***************************************************************************)
(* Part 2: one session (WebSocketHandler) with its runners and background  *)
(* tasks. Scheduling is asyncio's: one flow runs at a time and flows       *)
(* interleave only at their awaits, so every action below runs one flow    *)
(* from one suspension point to the next.                                  *)
(***************************************************************************)
VARIABLES hpc, hendpoint, hsent, lastcmd, ncmd, registered,
          agent_service, api_service, agent_task, api_task, svcs, tasks

MaxCmds == 3

MaxTasks == 2

MaxEvents == 1

Endpoints == {"buses", "contingency", "other"}

None == 0

\* APIResponsePayload(endpoint, status, data, error)
NoPayload ==
    [endpoint |-> "none", status |-> "none", error |-> "none", data |-> NoResult]

Payload(task) ==
    [endpoint |-> task.endpoint, status |-> task.status, error |-> task.error,
     data |-> task.data]

\* A run_api that goes on to the "completed" status without sending the
\* api_response.
SendResponse_Dropped(task, pending) ==
    [task EXCEPT !.pc = "send_resp", !.exit = "returned", !.late = pending]

\* run() has returned its APIResult and run_api hands the api_response
\* message to the channel; pending are the log entries whose stream_log
\* task was created since the task last suspended.
SendResponse(task, pending) ==
    [task EXCEPT !.pc = "send_resp", !.exit = "returned",
                 !.sent = Append(@, "api_response"),
                 !.resp = Payload(task), !.late = pending]

\* CUAAgentService.__init__ / BusAPIService.__init__ /
\* ContingencyAPIService.__init__: computer is the task whose initialize()
\* assigned self.computer last.
NewService(kind) == [kind |-> kind, is_running |-> FALSE, computer |-> None]

\* A background task (asyncio.create_task of run_agent / run_api) before its
\* first step.
\*   pc      where the task is suspended
\*   resume  where run_task's generator continues after the pending yield
\*   svc     the runner the task's run executes on
\*   cancel  Task.cancel() was called and CancelledError is not yet delivered
\*   handle  the automation session this run acquired: none, open,
\*           disc (a disconnect of it was attempted)
\*   agen    run_task's generator object once its task has settled
\*   ev      events consumed from the engine's stream
\*   status, error, errlog   the APIResult run() constructed and whether an
\*           error-level entry was logged
\*   raised  the step of run() that raised, or CancelledError
\*   exit    how run() ended: returned (its APIResult) or escaped (an
\*           exception left it)
\*   steps   the steps of run() after the connection that were entered:
\*           allocate (the trajectory directory), configure (the agent),
\*           dispatch (agent.run), collect (the directory scan), oracle (the
\*           extraction call)
\*   seen    a screenshot item of the event stream set final_screenshot
\*   found   what the directory scan found: some, none, raise
\*   xresult, data   what the extraction call returned and the APIResult's data
\*   sent    the messages run_api has handed to the channel, in order
\*   resp    the payload of its api_response message
\*   late    the log entries whose stream_log task had not run yet when the
\*           api_response was handed to the channel
NewTask(mode, endpoint) ==
    [mode |-> mode, endpoint |-> endpoint, pc |-> "created", resume |-> "none",
     svc |-> None, cancel |-> FALSE, handle |-> "none", agen |-> "none",
     ev |-> 0, status |-> "none", error |-> "none", errlog |-> FALSE,
     raised |-> "none", exit |-> "none",
     steps |-> {}, seen |-> FALSE, found |-> "unset",
     xresult |-> NoResult, data |-> NoResult,
     sent |-> <<>>, resp |-> NoPayload, late |-> {}]

TaskIds == 1..Len(tasks)

Settled(t) == tasks[t].pc \in {"done", "cancelled"}

InFlight(t) == ~Settled(t)

\* `self.is_running = False` (stop(), and the finally of run / run_task).
ClearRunning(sv, s) == [sv EXCEPT ![s].is_running = FALSE]

\* `self.is_running = True` at the top of run / run_task.
SetRunning(sv, s) == [sv EXCEPT ![s].is_running = TRUE]

\* `if self.X_service: await self.X_service.stop()`
StopService(sv, s) == IF s = None THEN sv ELSE ClearRunning(sv, s)

\* `if self.X_task: self.X_task.cancel()`: a no-op on a settled task.
CancelTask(ts, t) ==
    IF t # None /\ ts[t].pc \notin {"done", "cancelled"}
    THEN [ts EXCEPT ![t].cancel = TRUE]
    ELSE ts

\* `await self.computer.disconnect()` in a finally: the session that
\* self.computer names at that moment is the one disconnected.
Disconnect(ts, sv, s) ==
    IF sv[s].computer = None THEN ts
    ELSE [ts EXCEPT ![sv[s].computer].handle = "disc"]

svars == <<hpc, hendpoint, hsent, lastcmd, ncmd, registered,
           agent_service, api_service, agent_task, api_task, svcs, tasks>>

hvars == <<hpc, hendpoint, hsent, lastcmd, ncmd, registered>>

InitSession ==
    /\ hpc = "accept"
    /\ hendpoint = "none"
    /\ hsent = "none"
    /\ lastcmd = "none"
    /\ ncmd = 0
    /\ registered = FALSE
    /\ agent_service = None
    /\ api_service = None
    /\ agent_task = None
    /\ api_task = None
    /\ svcs = <<>>
    /\ tasks = <<>>

(***************************************************************************)
(* The receive loop: handle_connection and the command handlers.           *)
(***************************************************************************)
\* manager.connect and the initial "idle" status.
Connect ==
    /\ hpc = "accept"
    /\ hpc' = "recv"
    /\ registered' = TRUE
    /\ hsent' = "idle"
    /\ UNCHANGED <<hendpoint, lastcmd, ncmd, agent_service, api_service,
                   agent_task, api_task, svcs, tasks>>
    /\ UNCHANGED <<xvars, rvars, cvars>>

\* A guard that takes any runner the session holds for a running one.
AgentGuard_AnyRunner == agent_service # None

\* The guard of _start_agent.
AgentGuard == agent_service # None /\ svcs[agent_service].is_running

\* The guard of _run_api.
ApiGuard == api_service # None /\ svcs[api_service].is_running

\* _start_agent: the notice, or a new runner and a new task. It has no await
\* on the accepting path.
StartAgent ==
    /\ hpc = "recv"
    /\ ncmd < MaxCmds
    /\ ncmd' = ncmd + 1
    /\ lastcmd' = "start_agent"
    /\ IF AgentGuard
       THEN /\ hsent' = "already_agent"
            /\ UNCHANGED <<agent_service, agent_task, svcs, tasks>>
       ELSE /\ Len(tasks) < MaxTasks
            /\ svcs' = Append(svcs, NewService("agent"))
            /\ agent_service' = Len(svcs) + 1
            /\ tasks' = Append(tasks, NewTask("agent", "none"))
            /\ agent_task' = Len(tasks) + 1
            /\ UNCHANGED hsent
    /\ UNCHANGED <<hpc, hendpoint, registered, api_service, api_task>>
    /\ UNCHANGED <<xvars, rvars, cvars>>

\* _run_api up to its first await on the accepting path (the "Starting API"
\* status), or the notice.
RunApi(endpoint) ==
    /\ hpc = "recv"
    /\ ncmd < MaxCmds
    /\ ncmd' = ncmd + 1
    /\ lastcmd' = "run_api"
    /\ IF ApiGuard
       THEN /\ hsent' = "already_api"
            /\ UNCHANGED <<hpc, hendpoint>>
       ELSE /\ Len(tasks) < MaxTasks
            /\ hsent' = "starting"
            /\ hpc' = "api_starting"
            /\ hendpoint' = endpoint
    /\ UNCHANGED <<registered, agent_service, api_service, agent_task,
                   api_task, svcs, tasks>>
    /\ UNCHANGED <<xvars, rvars, cvars>>

\* _run_api after the status was sent: asyncio.create_task(run_api()).
RunApiCreate ==
    /\ hpc = "api_starting"
    /\ Len(tasks) < MaxTasks
    /\ tasks' = Append(tasks, NewTask("api", hendpoint))
    /\ api_task' = Len(tasks) + 1
    /\ hpc' = "recv"
    /\ hendpoint' = "none"
    /\ UNCHANGED <<hsent, lastcmd, ncmd, registered, agent_service,
                   api_service, agent_task, svcs>>
    /\ UNCHANGED <<xvars, rvars, cvars>>

\* _stop_agent from `if self.api_task:` on: cancel the API task and await it;
\* with nothing to await, the "stopped" status.
StopApiPart(ts) ==
    LET t2 == CancelTask(ts, api_task)
    IN /\ tasks' = t2
       /\ IF api_task # None /\ t2[api_task].pc \notin {"done", "cancelled"}
          THEN hpc' = "stop_wait_api" /\ UNCHANGED hsent
          ELSE hpc' = "recv" /\ hsent' = "stopped"

\* _stop_agent: stop() on both runners, cancel the agent task, and on to its
\* first await that suspends.
StopAgent ==
    /\ hpc = "recv"
    /\ ncmd < MaxCmds
    /\ ncmd' = ncmd + 1
    /\ lastcmd' = "stop_agent"
    /\ svcs' = StopService(StopService(svcs, agent_service), api_service)
    /\ LET t1 == CancelTask(tasks, agent_task)
       IN IF agent_task # None /\ t1[agent_task].pc \notin {"done", "cancelled"}
          THEN /\ tasks' = t1
               /\ hpc' = "stop_wait_agent"
               /\ UNCHANGED hsent
          ELSE StopApiPart(t1)
    /\ UNCHANGED <<hendpoint, registered, agent_service, api_service,
                   agent_task, api_task>>
    /\ UNCHANGED <<xvars, rvars, cvars>>

\* `await self.agent_task` returns (or raises CancelledError, swallowed).
StopAgentSettled ==
    /\ hpc = "stop_wait_agent"
    /\ Settled(agent_task)
    /\ StopApiPart(tasks)
    /\ UNCHANGED <<hendpoint, lastcmd, ncmd, registered, agent_service,
                   api_service, agent_task, api_task, svcs>>
    /\ UNCHANGED <<xvars, rvars, cvars>>

\* `await self.api_task` returns, and the "stopped" status is sent.
StopApiSettled ==
    /\ hpc = "stop_wait_api"
    /\ Settled(api_task)
    /\ hpc' = "recv"
    /\ hsent' = "stopped"
    /\ UNCHANGED <<hendpoint, lastcmd, ncmd, registered, agent_service,
                   api_service, agent_task, api_task, svcs, tasks>>
    /\ UNCHANGED <<xvars, rvars, cvars>>

\* receive_text raises (WebSocketDisconnect or any other error): _cleanup.
Cleanup ==
    /\ hpc = "recv"
    /\ lastcmd' = "disconnect"
    /\ svcs' = StopService(StopService(svcs, agent_service), api_service)
    /\ registered' = FALSE
    /\ hpc' = "closed"
    /\ UNCHANGED <<hendpoint, hsent, ncmd, agent_service, api_service,
                   agent_task, api_task, tasks>>
    /\ UNCHANGED <<xvars, rvars, cvars>>

(***************************************************************************)
(* Agent mode: run_agent (the forwarder) driving CUAAgentService.run_task  *)
(* (an async generator). pc "fwd" is the forwarder suspended in send_json  *)
(* or in the pacing sleep, the generator waiting at a yield.               *)
(***************************************************************************)
\* A finally that attempts the disconnect and leaves the flag as it is.
RunFinally_KeepsFlag(ts, sv, s) == <<Disconnect(ts, sv, s), sv>>

\* The finally of run_task / run: clear the flag and, if self.computer is
\* set, call its disconnect.
RunFinally(ts, sv, s) == <<Disconnect(ts, sv, s), ClearRunning(sv, s)>>

\* The first step of run_agent: self.agent_service is read now, run_task sets
\* is_running and yields the "connecting" status.
AgentStart(t) ==
    /\ tasks[t].mode = "agent"
    /\ tasks[t].pc = "created"
    /\ ~tasks[t].cancel
    /\ svcs' = SetRunning(svcs, agent_service)
    /\ tasks' = [tasks EXCEPT ![t].svc = agent_service, ![t].pc = "fwd",
                              ![t].resume = "connect"]
    /\ UNCHANGED <<hvars, agent_service, api_service, agent_task, api_task>>
    /\ UNCHANGED <<xvars, rvars, cvars>>

\* The forwarder asks the generator for its next message.
AgentResume(t) ==
    /\ tasks[t].mode = "agent"
    /\ tasks[t].pc = "fwd"
    /\ ~tasks[t].cancel
    /\ LET s == tasks[t].svc
       IN CASE tasks[t].resume = "connect" ->
                 \* initialize() builds the Computer (or raises), then
                 \* computer.run() is awaited.
                 \E built \in BOOLEAN :
                    IF built
                    THEN /\ svcs' = [svcs EXCEPT ![s].computer = t]
                         /\ tasks' = [tasks EXCEPT ![t].handle = "open",
                                                   ![t].pc = "connect"]
                    ELSE /\ tasks' = [tasks EXCEPT ![t].resume = "finally",
                                                   ![t].error = "connect"]
                         /\ UNCHANGED svcs
            [] tasks[t].resume = "events" ->
                 /\ tasks' = [tasks EXCEPT ![t].pc = "events"]
                 /\ UNCHANGED svcs
            [] OTHER ->
                 \* after the terminal message: the finally block
                 LET f == RunFinally(tasks, svcs, s)
                 IN /\ svcs' = f[2]
                    /\ tasks' = [f[1] EXCEPT ![t].pc =
                                   IF svcs[s].computer = None THEN "done"
                                   ELSE "teardown"]
    /\ UNCHANGED <<hvars, agent_service, api_service, agent_task, api_task>>
    /\ UNCHANGED <<xvars, rvars, cvars>>

\* computer.run() and create_agent() return or raise; the generator yields
\* the "running" status or the error message.
AgentConnectDone(t) ==
    /\ tasks[t].mode = "agent"
    /\ tasks[t].pc = "connect"
    /\ ~tasks[t].cancel
    /\ \E ok \in BOOLEAN :
          tasks' = [tasks EXCEPT ![t].pc = "fwd",
                                 ![t].resume = IF ok THEN "events" ELSE "finally",
                                 ![t].error = IF ok THEN "none" ELSE "connect"]
    /\ UNCHANGED <<hvars, agent_service, api_service, agent_task, api_task, svcs>>
    /\ UNCHANGED <<xvars, rvars, cvars>>

\* agent.run yields a result: the stop check, then the result's items, of
\* which one is forwarded or none.
AgentEvent(t) ==
    /\ tasks[t].mode = "agent"
    /\ tasks[t].pc = "events"
    /\ ~tasks[t].cancel
    /\ tasks[t].ev < MaxEvents
    /\ IF ~svcs[tasks[t].svc].is_running
       THEN tasks' = [tasks EXCEPT ![t].ev = @ + 1, ![t].pc = "fwd",
                                   ![t].resume = "finally"]
       ELSE \E yields \in BOOLEAN :
               tasks' = [tasks EXCEPT ![t].ev = @ + 1,
                                      ![t].pc = IF yields THEN "fwd" ELSE "events",
                                      ![t].resume = "events"]
    /\ UNCHANGED <<hvars, agent_service, api_service, agent_task, api_task, svcs>>
    /\ UNCHANGED <<xvars, rvars, cvars>>

\* The stream ends (agent_complete is yielded) or raises (error is yielded).
AgentStreamEnd(t) ==
    /\ tasks[t].mode = "agent"
    /\ tasks[t].pc = "events"
    /\ ~tasks[t].cancel
    /\ \E ok \in BOOLEAN :
          tasks' = [tasks EXCEPT ![t].pc = "fwd", ![t].resume = "finally",
                                 ![t].error = IF ok THEN "none" ELSE "dispatch"]
    /\ UNCHANGED <<hvars, agent_service, api_service, agent_task, api_task, svcs>>
    /\ UNCHANGED <<xvars, rvars, cvars>>

\* computer.disconnect() returns or raises (logged, not propagated): the
\* generator ends and with it run_agent, or the pending CancelledError goes on.
AgentTeardownDone(t) ==
    /\ tasks[t].mode = "agent"
    /\ tasks[t].pc \in {"teardown", "teardown_c"}
    /\ ~tasks[t].cancel
    /\ tasks' = [tasks EXCEPT ![t].pc =
                    IF tasks[t].pc = "teardown" THEN "done" ELSE "cancelled"]
    /\ UNCHANGED <<hvars, agent_service, api_service, agent_task, api_task, svcs>>
    /\ UNCHANGED <<xvars, rvars, cvars>>

\* CancelledError is delivered where the task is suspended. Neither
\* `except Exception` catches it. Inside the generator its finally runs;
\* in the forwarder the generator is left suspended at its yield.
AgentCancel(t) ==
    /\ tasks[t].mode = "agent"
    /\ tasks[t].cancel
    /\ InFlight(t)
    /\ LET s == tasks[t].svc
           f == RunFinally(tasks, svcs, s)
       IN CASE tasks[t].pc = "created" ->
                 /\ tasks' = [tasks EXCEPT ![t].cancel = FALSE,
                                           ![t].pc = "cancelled"]
                 /\ UNCHANGED svcs
            [] tasks[t].pc = "fwd" ->
                 /\ tasks' = [tasks EXCEPT ![t].cancel = FALSE,
                                           ![t].pc = "cancelled",
                                           ![t].agen = "suspended"]
                 /\ UNCHANGED svcs
            [] tasks[t].pc \in {"connect", "events"} ->
                 /\ svcs' = f[2]
                 /\ tasks' = [f[1] EXCEPT ![t].cancel = FALSE,
                                          ![t].pc = "teardown_c"]
            [] OTHER ->
                 /\ tasks' = [tasks EXCEPT ![t].cancel = FALSE,
                                           ![t].pc = "cancelled"]
                 /\ UNCHANGED svcs
    /\ UNCHANGED <<hvars, agent_service, api_service, agent_task, api_task>>
    /\ UNCHANGED <<xvars, rvars, cvars>>

\* The event loop's asynchronous-generator finalizer closes a generator that
\* its task left suspended: GeneratorExit at the yield runs the finally.
AgentFinalize(t) ==
    /\ tasks[t].mode = "agent"
    /\ tasks[t].agen = "suspended"
    /\ LET s == tasks[t].svc
           f == RunFinally(tasks, svcs, s)
       IN /\ svcs' = f[2]
          /\ tasks' = [f[1] EXCEPT ![t].agen = "closed"]
    /\ UNCHANGED <<hvars, agent_service, api_service, agent_task, api_task>>
    /\ UNCHANGED <<xvars, rvars, cvars>>

(***************************************************************************)
(* API mode: run_api driving BusAPIService.run / ContingencyAPIService.run. *)
(***************************************************************************)
\* The log entries of a run whose initialize() raised, none of them streamed
\* before run() returns: "Connecting to Windows sandbox..." and the error.
LogsOfFailedInit == {"connecting", "error"}

\* An `except Exception` of run() that builds the error result and logs
\* nothing.
ApiFail_NoErrorLog(ts, sv, t, step) ==
    LET f == RunFinally(ts, sv, ts[t].svc)
        noHandle == sv[ts[t].svc].computer = None
        failed == [f[1][t] EXCEPT !.raised = step, !.status = "error",
                                  !.error = step]
    IN <<[f[1] EXCEPT ![t] = IF noHandle
                             THEN SendResponse(failed, {"connecting"})
                             ELSE [failed EXCEPT !.pc = "teardown"]],
         f[2]>>

\* An `except Exception` of run() that is not reached by a failure of the
\* connection: the run goes on to configure the agent and dispatch the task.
ApiFail_ConnectContinues(ts, sv, t, step) ==
    LET f == RunFinally(ts, sv, ts[t].svc)
        noHandle == sv[ts[t].svc].computer = None
        failed == [f[1][t] EXCEPT !.raised = step, !.status = "error",
                                  !.error = step, !.errlog = TRUE]
    IN IF step = "connect" /\ ~noHandle
       THEN <<[ts EXCEPT ![t].error = step, ![t].pc = "events",
                         ![t].steps = {"allocate", "configure", "dispatch"}],
              sv>>
       ELSE <<[f[1] EXCEPT ![t] = IF noHandle
                                  THEN SendResponse(failed, LogsOfFailedInit)
                                  ELSE [failed EXCEPT !.pc = "teardown"]],
              f[2]>>

\* `except Exception` of run(): the error-level log entry and the error
\* result, then the finally; with no Computer to disconnect run() returns
\* and run_api sends the api_response without having suspended.
ApiFail(ts, sv, t, step) ==
    LET f == RunFinally(ts, sv, ts[t].svc)
        noHandle == sv[ts[t].svc].computer = None
        failed == [f[1][t] EXCEPT !.raised = step, !.status = "error",
                                  !.error = step, !.errlog = TRUE]
    IN <<[f[1] EXCEPT ![t] = IF noHandle
                             THEN SendResponse(failed, LogsOfFailedInit)
                             ELSE [failed EXCEPT !.pc = "teardown"]],
         f[2]>>

\* A return from the try block of run(), then the finally.
ApiReturn(ts, sv, t, status, error, data) ==
    LET f == RunFinally(ts, sv, ts[t].svc)
    IN <<[f[1] EXCEPT ![t].status = status, ![t].error = error,
                      ![t].errlog = (status = "error"),
                      ![t].data = data,
                      ![t].pc = "teardown"],
         f[2]>>

\* The first step of run_api: an unknown endpoint is answered with an error
\* message, and so is a runner constructor that raises; otherwise the runner
\* is assigned, run() sets is_running, initialize() builds the Computer (or
\* raises) and computer.run() is awaited.
ApiStart(t) ==
    /\ tasks[t].mode = "api"
    /\ tasks[t].pc = "created"
    /\ ~tasks[t].cancel
    /\ IF tasks[t].endpoint \notin {"buses", "contingency"}
       THEN /\ tasks' = [tasks EXCEPT ![t].pc = "send_unknown",
                                      ![t].sent = <<"error">>]
            /\ UNCHANGED <<svcs, api_service>>
       ELSE \E built \in {"ok", "init_raises", "ctor_raises"} :
               LET s == Len(svcs) + 1
                   sv == SetRunning(Append(svcs, NewService(tasks[t].endpoint)), s)
                   ts == [tasks EXCEPT ![t].svc = s]
               IN CASE built = "ctor_raises" ->
                         /\ tasks' = [tasks EXCEPT ![t].pc = "send_unknown",
                                                   ![t].sent = <<"error">>]
                         /\ UNCHANGED <<svcs, api_service>>
                    [] built = "ok" ->
                         /\ api_service' = s
                         /\ svcs' = [sv EXCEPT ![s].computer = t]
                         /\ tasks' = [ts EXCEPT ![t].handle = "open",
                                                ![t].pc = "connect"]
                    [] OTHER ->
                         /\ api_service' = s
                         /\ tasks' = ApiFail(ts, sv, t, "connect")[1]
                         /\ svcs' = ApiFail(ts, sv, t, "connect")[2]
    /\ UNCHANGED <<hvars, agent_service, agent_task, api_task>>
    /\ UNCHANGED <<xvars, rvars, cvars>>

\* The steps entered when computer.run() returns: none if it raised; the
\* directory allocation, then the ComputerAgent (which may raise), then
\* agent.run.
StepsEntered(r) ==
    CASE r = "connect" -> {}
      [] r = "configure" -> {"allocate", "configure"}
      [] OTHER -> {"allocate", "configure", "dispatch"}

\* computer.run() and create_agent() return or raise.
ApiConnectDone(t) ==
    /\ tasks[t].mode = "api"
    /\ tasks[t].pc = "connect"
    /\ ~tasks[t].cancel
    /\ \E r \in {"ok", "connect", "configure"} :
          LET ts == [tasks EXCEPT ![t].steps = StepsEntered(r)]
          IN IF r = "ok"
             THEN /\ tasks' = [ts EXCEPT ![t].pc = "events"]
                  /\ UNCHANGED svcs
             ELSE /\ tasks' = ApiFail(ts, svcs, t, r)[1]
                  /\ svcs' = ApiFail(ts, svcs, t, r)[2]
    /\ UNCHANGED <<hvars, agent_service, api_service, agent_task, api_task>>
    /\ UNCHANGED <<xvars, rvars, cvars>>

\* An assignment that keeps the screenshot an event set when the directory
\* has none.
FinalScreenshot_KeepsEvent(seen, found) ==
    IF found = "none" /\ seen THEN "some" ELSE found

\* `self.final_screenshot = self._get_latest_screenshot()` (and
\* `screenshots = self._get_all_screenshots()`): what the directory holds,
\* whatever the event stream showed.
FinalScreenshot(seen, found) == found

\* After the event loop: the trajectory directory is scanned (or the scan
\* raises); with a screenshot the extraction is awaited, without one the
\* run returns the "No screenshot" error.
ApiCollect(ts, t, shots) ==
    LET tc == [ts EXCEPT ![t].found = shots, ![t].steps = @ \cup {"collect"}]
        shot == FinalScreenshot(ts[t].seen, shots)
    IN CASE shot = "some" ->
              /\ tasks' = [tc EXCEPT ![t].pc = "extract",
                                     ![t].steps = @ \cup {"oracle"}]
              /\ UNCHANGED svcs
         [] shot = "none" ->
              /\ tasks' = ApiReturn(tc, svcs, t, "error", "no_screenshot", NoResult)[1]
              /\ svcs' = ApiReturn(tc, svcs, t, "error", "no_screenshot", NoResult)[2]
         [] OTHER ->
              /\ tasks' = ApiFail(tc, svcs, t, "collect")[1]
              /\ svcs' = ApiFail(tc, svcs, t, "collect")[2]

\* The items of a result: in the bus runner a screenshot item sets
\* final_screenshot; the contingency runner captures none.
ScreenshotItems(endpoint) == IF endpoint = "buses" THEN BOOLEAN ELSE {FALSE}

\* agent.run yields a result: the stop check (break, then collect), or its
\* items are logged and the next result is awaited.
ApiEvent(t) ==
    /\ tasks[t].mode = "api"
    /\ tasks[t].pc = "events"
    /\ ~tasks[t].cancel
    /\ tasks[t].ev < MaxEvents
    /\ IF ~svcs[tasks[t].svc].is_running
       THEN \E shots \in {"some", "none", "raise"} :
               ApiCollect([tasks EXCEPT ![t].ev = @ + 1], t, shots)
       ELSE /\ \E shot \in ScreenshotItems(tasks[t].endpoint) :
                  tasks' = [tasks EXCEPT ![t].ev = @ + 1,
                                         ![t].seen = @ \/ shot]
            /\ UNCHANGED svcs
    /\ UNCHANGED <<hvars, agent_service, api_service, agent_task, api_task>>
    /\ UNCHANGED <<xvars, rvars, cvars>>

\* The stream ends, then collect; or it raises.
ApiStreamEnd(t) ==
    /\ tasks[t].mode = "api"
    /\ tasks[t].pc = "events"
    /\ ~tasks[t].cancel
    /\ \E shots \in {"some", "none", "raise"} : ApiCollect(tasks, t, shots)
    /\ UNCHANGED <<hvars, agent_service, api_service, agent_task, api_task>>
    /\ UNCHANGED <<xvars, rvars, cvars>>

\* A raise of the engine's stream.
ApiStreamRaise(t) ==
    /\ tasks[t].mode = "api"
    /\ tasks[t].pc = "events"
    /\ ~tasks[t].cancel
    /\ tasks' = ApiFail(tasks, svcs, t, "dispatch")[1]
    /\ svcs' = ApiFail(tasks, svcs, t, "dispatch")[2]
    /\ UNCHANGED <<hvars, agent_service, api_service, agent_task, api_task>>
    /\ UNCHANGED <<xvars, rvars, cvars>>

\* The oracle outcomes a run's extraction call is checked with.
RunOracles ==
    {[kind |-> "http_error", code |-> "500", text |-> <<>>],
     [kind |-> "text", code |-> "none", text |-> <<"L", "K", "A", "R">>],
     [kind |-> "text", code |-> "none", text |-> <<"x">>]}

VariantOf(endpoint) == IF endpoint = "buses" THEN "bus" ELSE "multi"

\* A run that reports an extraction result carrying an error as a failed job.
ApiExtracted_ErrorFails(ts, sv, t, r) ==
    LET tx == [ts EXCEPT ![t].xresult = r]
    IN IF r.exc # "none" \/ LenOfKey(r.val) # "none"
       THEN ApiFail(tx, sv, t, "extract")
       ELSE IF r.error # NoError
       THEN ApiReturn(tx, sv, t, "error", "extract", NoResult)
       ELSE ApiReturn(tx, sv, t, "success", "none", r)

\* What run() does with the extraction result: it logs
\* len(data.get(key, [])) and returns the success result with the result as
\* its data, an error field inside it or not.
ApiExtracted(ts, sv, t, r) ==
    LET tx == [ts EXCEPT ![t].xresult = r]
    IN IF r.exc # "none" \/ LenOfKey(r.val) # "none"
       THEN ApiFail(tx, sv, t, "extract")
       ELSE ApiReturn(tx, sv, t, "success", "none", r)

\* The extraction call returns.
ApiExtractDone(t) ==
    /\ tasks[t].mode = "api"
    /\ tasks[t].pc = "extract"
    /\ ~tasks[t].cancel
    /\ \E o \in RunOracles :
          LET res == ApiExtracted(tasks, svcs, t,
                                  extract(VariantOf(tasks[t].endpoint), o))
          IN tasks' = res[1] /\ svcs' = res[2]
    /\ UNCHANGED <<hvars, agent_service, api_service, agent_task, api_task>>
    /\ UNCHANGED <<xvars, rvars, cvars>>

\* A finally that leaves the runner reference as it is.
ClearApiService_Keeps == UNCHANGED api_service

\* `finally: self.api_service = None` of run_api.
ClearApiService == api_service' = None

\* computer.disconnect() returns ("Disconnected from sandbox" is logged) or
\* raises (not propagated, no log entry): run() returns its result and
\* run_api sends the api_response message; or the pending CancelledError
\* leaves run() and run_api.
ApiTeardownDone(t) ==
    /\ tasks[t].mode = "api"
    /\ tasks[t].pc \in {"teardown", "teardown_c"}
    /\ ~tasks[t].cancel
    /\ IF tasks[t].pc = "teardown"
       THEN /\ \E ok \in BOOLEAN :
                  tasks' = [tasks EXCEPT ![t] =
                              SendResponse(@, IF ok THEN {"disconnected"} ELSE {})]
            /\ UNCHANGED api_service
       ELSE /\ tasks' = [tasks EXCEPT ![t].pc = "cancelled",
                                      ![t].exit = "escaped"]
            /\ ClearApiService
    /\ UNCHANGED <<hvars, agent_service, agent_task, api_task, svcs>>
    /\ UNCHANGED <<xvars, rvars, cvars>>

\* api_response was sent; the "completed" status is sent next.
ApiSendResp(t) ==
    /\ tasks[t].mode = "api"
    /\ tasks[t].pc = "send_resp"
    /\ ~tasks[t].cancel
    /\ tasks' = [tasks EXCEPT ![t].pc = "send_done",
                              ![t].sent = Append(@, "completed")]
    /\ UNCHANGED <<hvars, agent_service, api_service, agent_task, api_task, svcs>>
    /\ UNCHANGED <<xvars, rvars, cvars>>

\* The last send of run_api returned (the "completed" status or the unknown
\* endpoint error): the finally clears the runner reference.
ApiFinish(t) ==
    /\ tasks[t].mode = "api"
    /\ tasks[t].pc \in {"send_done", "send_unknown"}
    /\ ~tasks[t].cancel
    /\ tasks' = [tasks EXCEPT ![t].pc = "done"]
    /\ ClearApiService
    /\ UNCHANGED <<hvars, agent_service, agent_task, api_task, svcs>>
    /\ UNCHANGED <<xvars, rvars, cvars>>

\* CancelledError is delivered where the task is suspended. A task that has
\* not started never enters run_api. Inside run() no `except Exception`
\* catches it: the finally of run() runs and the error leaves run().
ApiCancel(t) ==
    /\ tasks[t].mode = "api"
    /\ tasks[t].cancel
    /\ InFlight(t)
    /\ CASE tasks[t].pc = "created" ->
              /\ tasks' = [tasks EXCEPT ![t].cancel = FALSE,
                                        ![t].pc = "cancelled"]
              /\ UNCHANGED <<svcs, api_service>>
         [] tasks[t].pc \in {"connect", "events", "extract"} ->
              LET f == RunFinally(tasks, svcs, tasks[t].svc)
              IN /\ svcs' = f[2]
                 /\ tasks' = [f[1] EXCEPT ![t].cancel = FALSE,
                                          ![t].raised = "CancelledError",
                                          ![t].pc = "teardown_c"]
                 /\ UNCHANGED api_service
         [] tasks[t].pc \in {"teardown", "teardown_c"} ->
              \* in the finally's await: the cancellation leaves run() in
              \* place of the result it was about to return
              /\ tasks' = [tasks EXCEPT ![t].cancel = FALSE,
                                        ![t].raised = "CancelledError",
                                        ![t].exit = "escaped",
                                        ![t].pc = "cancelled"]
              /\ ClearApiService
              /\ UNCHANGED svcs
         [] OTHER ->
              /\ tasks' = [tasks EXCEPT ![t].cancel = FALSE,
                                        ![t].pc = "cancelled"]
              /\ ClearApiService
              /\ UNCHANGED svcs
    /\ UNCHANGED <<hvars, agent_service, agent_task, api_task>>
    /\ UNCHANGED <<xvars, rvars, cvars>>

(***************************************************************************)
(* The connection registry: ConnectionManager (websocket/manager.py) with  *)
(* several channels and concurrent calls of connect, disconnect, send_json *)
(* and broadcast. A call runs from one suspension point to the next; the   *)
(* list is changed only inside `async with self._lock`.                    *)
(*   sockets       per channel: new (not accepted), open, broken (a send   *)
(*                 on it raises)                                           *)
(*   calls         the calls in flight, one per slot                       *)
(*   lastcall      the call that returned last                             *)
(*   joined, left  the channels whose connect has registered them, and     *)
(*                 those for which a disconnect has run or a send has      *)
(*                 raised since                                            *)
(***************************************************************************)
MaxChannels == 3

MaxCalls == 5

MaxInFlight == 2

Channels == 1..MaxChannels

Slots == 1..MaxInFlight

\* pc: accept, lock (waiting for self._lock), send (in websocket.send_json),
\* cleanup (broadcast's loop over disconnected), done
\* todo: the rest of broadcast's iteration; snapshot: the list it iterates
\* delivered, failed: the channels whose send returned / raised, in order
\* disconnected: broadcast's list of channels still to be disconnected
\* raised: an exception left the call
NewCall(kind, ws, pc) ==
    [kind |-> kind, ws |-> ws, pc |-> pc, todo |-> <<>>, snapshot |-> <<>>,
     delivered |-> <<>>, failed |-> <<>>, disconnected |-> <<>>,
     raised |-> FALSE]

Idle == NewCall("idle", None, "idle")

Range(seq) == {seq[i] : i \in 1..Len(seq)}

\* `if websocket in self.active_connections:
\*      self.active_connections.remove(websocket)`: the first occurrence.
Remove(list, ws) ==
    IF ws \notin Range(list) THEN list
    ELSE LET i == SetMin({j \in 1..Len(list) : list[j] = ws})
         IN SubSeq(list, 1, i - 1) \o SubSeq(list, i + 1, Len(list))

\* A registration that appends the handle twice.
Register_Twice(list, ws) == Append(Append(list, ws), ws)

\* `self.active_connections.append(websocket)`
Register(list, ws) == Append(list, ws)

InitRegistry ==
    /\ active_connections = <<>>
    /\ lock = None
    /\ sockets = [c \in Channels |-> "new"]
    /\ calls = [k \in Slots |-> Idle]
    /\ lastcall = Idle
    /\ ncalls = 0
    /\ joined = {}
    /\ left = {}

FreeSlots == {k \in Slots : calls[k] = Idle}

Connecting(ws) == \E k \in Slots : calls[k].kind = "connect" /\ calls[k].ws = ws

\* A call is made: it takes the lowest free slot.
Invoke(call) ==
    /\ ncalls < MaxCalls
    /\ FreeSlots # {}
    /\ calls' = [calls EXCEPT ![SetMin(FreeSlots)] = call]
    /\ ncalls' = ncalls + 1
    /\ UNCHANGED <<active_connections, lock, sockets, lastcall, joined, left>>

\* The call in slot k returns.
Complete(k, call) ==
    /\ lastcall' = [call EXCEPT !.pc = "done"]
    /\ calls' = [calls EXCEPT ![k] = Idle]

InUse(ws) == \E k \in Slots : calls[k].ws = ws

\* handle_connection calls connect once, as the first use of a websocket not
\* yet accepted.
CallConnect(ws) ==
    /\ sockets[ws] = "new"
    /\ ~InUse(ws)
    /\ Invoke(NewCall("connect", ws, "accept"))
    /\ UNCHANGED <<svars, xvars, cvars>>

\* `await websocket.accept()` returns.
ConnectAccepted(k) ==
    /\ calls[k].kind = "connect"
    /\ calls[k].pc = "accept"
    /\ sockets' = [sockets EXCEPT ![calls[k].ws] = "open"]
    /\ calls' = [calls EXCEPT ![k].pc = "lock"]
    /\ UNCHANGED <<active_connections, lock, lastcall, ncalls, joined, left>>
    /\ UNCHANGED <<svars, xvars, cvars>>

\* connect inside the lock: the append.
ConnectAppend(k) ==
    /\ calls[k].kind = "connect"
    /\ calls[k].pc = "lock"
    /\ lock = None
    /\ active_connections' = Register(active_connections, calls[k].ws)
    /\ joined' = joined \cup {calls[k].ws}
    /\ Complete(k, calls[k])
    /\ UNCHANGED <<lock, sockets, ncalls, left>>
    /\ UNCHANGED <<svars, xvars, cvars>>

\* disconnect is called (by _cleanup or by a caller of its own), on a handle
\* whose connect is not in progress.
CallDisconnect(ws) ==
    /\ ~Connecting(ws)
    /\ Invoke(NewCall("disconnect", ws, "lock"))
    /\ UNCHANGED <<svars, xvars, cvars>>

\* disconnect inside the lock.
DisconnectRun(k) ==
    /\ calls[k].kind = "disconnect"
    /\ calls[k].pc = "lock"
    /\ lock = None
    /\ active_connections' = Remove(active_connections, calls[k].ws)
    /\ left' = left \cup ({calls[k].ws} \cap joined)
    /\ Complete(k, calls[k])
    /\ UNCHANGED <<lock, sockets, ncalls, joined>>
    /\ UNCHANGED <<svars, xvars, cvars>>

\* send_json is called and suspends in websocket.send_json.
CallSendJson(ws) ==
    /\ ~Connecting(ws)
    /\ Invoke(NewCall("send_json", ws, "send"))
    /\ UNCHANGED <<svars, xvars, cvars>>

\* A send_json without the try: the exception of the send leaves the call.
SendFailed_Raises(call) ==
    [call EXCEPT !.failed = <<call.ws>>, !.raised = TRUE, !.pc = "done"]

\* `except Exception` of send_json: the error is logged and
\* `await self.disconnect(websocket)` waits for the lock.
SendFailed(call) == [call EXCEPT !.failed = <<call.ws>>, !.pc = "lock"]

\* websocket.send_json returns, or raises on a channel that is not open.
SendJsonDone(k) ==
    /\ calls[k].kind = "send_json"
    /\ calls[k].pc = "send"
    /\ IF sockets[calls[k].ws] = "open"
       THEN /\ Complete(k, [calls[k] EXCEPT !.delivered = <<calls[k].ws>>])
            /\ UNCHANGED left
       ELSE LET c == SendFailed(calls[k])
            IN /\ IF c.pc = "done" THEN Complete(k, c)
                  ELSE calls' = [calls EXCEPT ![k] = c] /\ UNCHANGED lastcall
               /\ left' = left \cup ({calls[k].ws} \cap joined)
    /\ UNCHANGED <<active_connections, lock, sockets, ncalls, joined>>
    /\ UNCHANGED <<svars, xvars, cvars>>

\* The disconnect of send_json's handler, inside the lock.
SendJsonDisconnect(k) ==
    /\ calls[k].kind = "send_json"
    /\ calls[k].pc = "lock"
    /\ lock = None
    /\ active_connections' = Remove(active_connections, calls[k].ws)
    /\ Complete(k, calls[k])
    /\ UNCHANGED <<lock, sockets, ncalls, joined, left>>
    /\ UNCHANGED <<svars, xvars, cvars>>

CallBroadcast ==
    /\ Invoke(NewCall("broadcast", None, "lock"))
    /\ UNCHANGED <<svars, xvars, cvars>>

\* broadcast acquires the lock and starts the first send; over an empty list
\* it returns.
BroadcastAcquire(k) ==
    /\ calls[k].kind = "broadcast"
    /\ calls[k].pc = "lock"
    /\ lock = None
    /\ IF active_connections = <<>>
       THEN /\ Complete(k, calls[k])
            /\ UNCHANGED lock
       ELSE /\ lock' = k
            /\ calls' = [calls EXCEPT ![k].pc = "send",
                                      ![k].todo = active_connections,
                                      ![k].snapshot = active_connections]
            /\ UNCHANGED lastcall
    /\ UNCHANGED <<active_connections, sockets, ncalls, joined, left>>
    /\ UNCHANGED <<svars, xvars, cvars>>

\* A broadcast without the inner try: the exception of a send ends the loop
\* and leaves the call.
BroadcastFailed_Aborts(call, c) ==
    [call EXCEPT !.failed = Append(@, c), !.todo = <<>>, !.raised = TRUE]

\* A handler that awaits disconnect(connection) inside the loop, with the
\* lock held.
BroadcastFailed_DisconnectsInside(call, c) ==
    [call EXCEPT !.failed = Append(@, c), !.disconnected = Append(@, c),
                 !.todo = Tail(@), !.pc = "lock"]

\* `except Exception: disconnected.append(connection)`, and on to the next
\* connection.
BroadcastFailed(call, c) ==
    [call EXCEPT !.failed = Append(@, c), !.disconnected = Append(@, c),
                 !.todo = Tail(@)]

\* A send of the loop returns or raises; after the last one the lock is
\* released and the disconnects of the failed channels follow.
BroadcastSent(k) ==
    /\ calls[k].kind = "broadcast"
    /\ calls[k].pc = "send"
    /\ LET c == Head(calls[k].todo)
           ok == sockets[c] = "open"
           call == IF ok
                   THEN [calls[k] EXCEPT !.delivered = Append(@, c),
                                         !.todo = Tail(@)]
                   ELSE BroadcastFailed(calls[k], c)
       IN /\ left' = IF ok THEN left ELSE left \cup {c}
          /\ IF call.todo # <<>>
             THEN /\ calls' = [calls EXCEPT ![k] = call]
                  /\ UNCHANGED <<lock, lastcall>>
             ELSE /\ lock' = None
                  /\ IF call.disconnected = <<>>
                     THEN Complete(k, call)
                     ELSE /\ calls' = [calls EXCEPT ![k] =
                                         [call EXCEPT !.pc = "cleanup"]]
                          /\ UNCHANGED lastcall
    /\ UNCHANGED <<active_connections, sockets, ncalls, joined>>
    /\ UNCHANGED <<svars, xvars, cvars>>

\* `for conn in disconnected: await self.disconnect(conn)`, one per step.
BroadcastCleanup(k) ==
    /\ calls[k].kind = "broadcast"
    /\ calls[k].pc = "cleanup"
    /\ lock = None
    /\ active_connections' =
          Remove(active_connections, Head(calls[k].disconnected))
    /\ LET call == [calls[k] EXCEPT !.disconnected = Tail(@)]
       IN IF call.disconnected = <<>>
          THEN Complete(k, call)
          ELSE calls' = [calls EXCEPT ![k] = call] /\ UNCHANGED lastcall
    /\ UNCHANGED <<lock, sockets, ncalls, joined, left>>
    /\ UNCHANGED <<svars, xvars, cvars>>

\* The peer of an open channel goes away: sends on it raise from now on.
Break(ws) ==
    /\ sockets[ws] = "open"
    /\ sockets' = [sockets EXCEPT ![ws] = "broken"]
    /\ UNCHANGED <<active_connections, lock, calls, lastcall, ncalls,
                   joined, left>>
    /\ UNCHANGED <<svars, xvars, cvars>>

(***************************************************************************)
(* Part 3: one runner object on its own (BusAPIService,                    *)
(* ContingencyAPIService or CUAAgentService), driven through its public    *)
(* interface: run() / run_task() and stop(). stop() arrives without a      *)
(* cancellation of the run, as _cleanup issues it. A list is an object: a  *)
(* field or a result holds a reference into `heap`.                        *)
(*   pc       where run() is suspended: connect (computer.run), dispatch   *)
(*            (the next result of agent.run), yield (run_task's generator  *)
(*            at a yield), extract (the oracle), teardown                  *)
(*            (computer.disconnect); new before the call, done after it    *)
(*   resume   where the generator continues after the pending yield        *)
(*   batch    the items of the current result not yet handled              *)
(*   logs     the list self.logs refers to                                 *)
(*   result   the APIResult of run(): its fields and the list it carries   *)
(*   log_tasks  the tasks created for log_callback, in creation order      *)
(***************************************************************************)
MaxResults == 1

MaxItems == 2

MaxStops == 1

MaxFaults == 1

RunnerKinds == {"bus", "contingency", "agent"}

ItemTypes == {"message", "computer_call_output", "computer_call"}

\* The "output" list of one result of agent.run.
Batches ==
    UNION {[1..n -> ItemTypes] : n \in 0..MaxItems}

NoRunResult ==
    [status |-> "none", data |-> "none", error |-> "none", logs |-> 0,
     final_screenshot |-> "none"]

\* __init__: `self.logs = []` is list 1.
NewRunner(kind, callback) ==
    [kind |-> kind, callback |-> callback, pc |-> "new", resume |-> "none",
     batch |-> <<>>, is_running |-> FALSE, computer |-> FALSE, logs |-> 1,
     heap |-> << <<>> >>, log_tasks |-> <<>>, result |-> NoRunResult,
     results |-> 0, stops |-> 0, faults |-> 0]

\* What an observer of the runner has recorded:
\*   stop_at  where run() was when stop() was first called
\*   steps    the steps of run() that were entered
\*   emitted  the messages run_task has yielded
\*   order    the same steps in the order in which they were entered
\*   late     an item of the engine's stream was handled after a stop() that
\*            arrived in the dispatch step
NothingObserved ==
    [stop_at |-> "none", steps |-> {}, order |-> <<>>, emitted |-> <<>>,
     late |-> FALSE]

\* A _log that schedules the subscriber twice for an entry.
Log_DispatchesTwice(r, msg) ==
    LET r1 == [r EXCEPT !.heap[r.logs] = Append(@, msg)]
        task == [entry |-> <<r.logs, Len(r1.heap[r.logs])>>, state |-> "pending"]
    IN IF r.callback
       THEN [r1 EXCEPT !.log_tasks = Append(Append(@, task), task)]
       ELSE r1

\* _log: append the entry to self.logs, then, if a subscriber was supplied,
\* asyncio.create_task(self.log_callback(entry)).
Log(r, msg) ==
    LET r1 == [r EXCEPT !.heap[r.logs] = Append(@, msg)]
        task == [entry |-> <<r.logs, Len(r1.heap[r.logs])>>, state |-> "pending"]
    IN IF r.callback
       THEN [r1 EXCEPT !.log_tasks = Append(@, task)]
       ELSE r1

RECURSIVE LogEach(_, _)
LogEach(r, msgs) ==
    IF msgs = <<>> THEN r ELSE LogEach(Log(r, Head(msgs)), Tail(msgs))

\* An APIResult built without `logs=`: the dataclass gives it a new empty
\* list.
ReturnResult_DefaultLogs(r, status, data, error, final) ==
    [r EXCEPT !.heap = Append(@, <<>>),
              !.result = [status |-> status, data |-> data, error |-> error,
                          logs |-> Len(r.heap) + 1,
                          final_screenshot |-> final]]

\* `return APIResult(status=..., data=..., error=..., logs=self.logs,
\* final_screenshot=...)`: a field that is not passed is None, and the
\* dataclass stores the list reference it is given.
ReturnResult(r, status, data, error, final) ==
    [r EXCEPT !.result = [status |-> status, data |-> data, error |-> error,
                          logs |-> r.logs, final_screenshot |-> final]]

\* The finally of run(): clear the flag and, if self.computer is set, await
\* its disconnect.
RunnerFinally(r) ==
    [r EXCEPT !.is_running = FALSE,
              !.pc = IF r.computer THEN "teardown" ELSE "done"]

\* `except Exception` of run(): the error entry and the error result.
RunnerRaise(r) ==
    RunnerFinally(ReturnResult(Log(r, "error"), "error", "none", "str(e)",
                               "none"))

\* The log entry the loop body of run() writes for an item, per runner kind.
ItemLog(kind, item) ==
    CASE item = "message" -> <<"agent_msg">>
      [] item = "computer_call" -> <<"action">>
      [] item = "computer_call_output" /\ kind = "bus" -> <<"screenshot">>
      [] OTHER -> <<>>

RECURSIVE ItemLogs(_, _)
ItemLogs(kind, items) ==
    IF items = <<>> THEN <<>>
    ELSE ItemLog(kind, Head(items)) \o ItemLogs(kind, Tail(items))

\* A run() that goes on to the extraction call with an empty scan.
RunnerCollect_AlwaysExtracts(r, found) ==
    LET r1 == Log(r, "task_completed")
    IN IF found = "raise" THEN RunnerRaise(r1)
       ELSE [LogEach(r1, IF found = "some" THEN <<"found", "sending">>
                         ELSE <<"sending">>) EXCEPT !.pc = "extract"]

\* run() after the loop, whichever way the loop was left: the directory
\* scan, then the extraction call or the error result.
RunnerCollect(r, found) ==
    LET r1 == Log(r, "task_completed")
    IN CASE found = "some" ->
              [LogEach(r1, <<"found", "sending">>) EXCEPT !.pc = "extract"]
         [] found = "none" ->
              RunnerFinally(ReturnResult(Log(r1, "no_screenshot"), "error",
                                         "none", "no_screenshot", "none"))
         [] OTHER -> RunnerRaise(r1)

\* The steps the code after the loop has entered.
CollectSteps(r) ==
    IF r.pc = "extract" THEN <<"collect", "oracle">> ELSE <<"collect">>

\* run_task yields a message and waits to be resumed at `resume`.
Yield(r, resume) == [r EXCEPT !.pc = "yield", !.resume = resume]

Emit(o, msg) == [o EXCEPT !.emitted = Append(@, msg)]

Enter(o, steps) ==
    [o EXCEPT !.steps = @ \cup {steps[i] : i \in DOMAIN steps},
              !.order = @ \o steps]

\* stop() arrived in the dispatch step and an item is handled now.
Late(o) ==
    [o EXCEPT !.late = @ \/ o.stop_at \in {"dispatch", "batch"}]

\* run() / run_task() up to its first suspension.
RunnerStart ==
    /\ runner.pc = "new"
    /\ LET r0 == [runner EXCEPT !.is_running = TRUE]
           r1 == [r0 EXCEPT !.logs = Len(r0.heap) + 1,
                            !.heap = Append(@, <<>>)]
       IN IF runner.kind = "agent"
          THEN /\ runner' = Yield(r0, "connect")
               /\ observed' = Emit(observed, "connecting")
          ELSE /\ \E built \in BOOLEAN :
                     runner' =
                        IF built
                        THEN [Log([Log(r1, "connecting") EXCEPT !.computer = TRUE],
                                  "starting") EXCEPT !.pc = "connect"]
                        ELSE RunnerRaise(Log(r1, "connecting"))
               /\ UNCHANGED observed
    /\ UNCHANGED <<svars, xvars, rvars, avars, qvars>>

\* The consumer of run_task asks the generator for its next message.
RunnerNext ==
    /\ runner.pc = "yield"
    /\ CASE runner.resume = "connect" ->
              \* initialize() builds the Computer or raises
              \E built \in BOOLEAN :
                 IF built
                 THEN /\ runner' = [runner EXCEPT !.computer = TRUE,
                                                  !.pc = "connect"]
                      /\ UNCHANGED observed
                 ELSE /\ runner' = Yield(runner, "finally")
                      /\ observed' = Emit(observed, "error")
         [] runner.resume = "dispatch" ->
              /\ runner' = [runner EXCEPT !.pc = "dispatch"]
              /\ UNCHANGED observed
         [] runner.resume = "batch" ->
              \* the next item of the result, or back to `async for`
              IF runner.batch = <<>>
              THEN /\ runner' = [runner EXCEPT !.pc = "dispatch"]
                   /\ UNCHANGED observed
              ELSE /\ runner' = [runner EXCEPT !.batch = Tail(@)]
                   /\ observed' = Late(Emit(observed, Head(runner.batch)))
         [] OTHER ->
              /\ runner' = RunnerFinally(runner)
              /\ UNCHANGED observed
    /\ UNCHANGED <<svars, xvars, rvars, avars, qvars>>

\* computer.run() returns or raises, then create_agent() returns or raises.
RunnerConnectDone ==
    /\ runner.pc = "connect"
    /\ \E r \in {"ok", "connect", "configure"} :
          IF runner.kind = "agent"
          THEN /\ runner' = Yield(runner, IF r = "ok" THEN "dispatch" ELSE "finally")
               /\ observed' =
                    Emit(Enter(observed, IF r = "connect" THEN <<>>
                                         ELSE <<"configure">>),
                         IF r = "ok" THEN "running" ELSE "error")
          ELSE CASE r = "ok" ->
                      /\ runner' =
                           [LogEach(runner, <<"connected", "creating_agent",
                                              "trajectory", "agent_init">>)
                              EXCEPT !.pc = "dispatch"]
                      /\ observed' = Enter(observed, <<"configure", "dispatch">>)
                 [] r = "configure" ->
                      /\ runner' =
                           RunnerRaise(LogEach(runner, <<"connected",
                                                         "creating_agent">>))
                      /\ observed' = Enter(observed, <<"configure">>)
                 [] OTHER ->
                      /\ runner' = RunnerRaise(runner)
                      /\ UNCHANGED observed
    /\ UNCHANGED <<svars, xvars, rvars, avars, qvars>>

\* agent.run yields a result: `if not self.is_running: break`, else the
\* result's items. run() handles them without suspending, run_task yields
\* one message per item.
RunnerResult ==
    /\ runner.pc = "dispatch"
    /\ runner.results < MaxResults
    /\ \E items \in Batches, found \in {"some", "none", "raise"} :
          LET r0 == [runner EXCEPT !.results = @ + 1]
          IN CASE ~runner.is_running /\ runner.kind = "agent" ->
                    /\ runner' = Yield(r0, "finally")
                    /\ observed' = Emit(observed, "agent_complete")
               [] ~runner.is_running /\ runner.kind # "agent" ->
                    /\ runner' = RunnerCollect(r0, found)
                    /\ observed' = Enter(observed, CollectSteps(runner'))
               [] runner.is_running /\ runner.kind = "agent" ->
                    IF items = <<>>
                    THEN runner' = r0 /\ UNCHANGED observed
                    ELSE /\ runner' = [Yield(r0, "batch") EXCEPT
                                         !.batch = Tail(items)]
                         /\ observed' = Late(Emit(observed, Head(items)))
               [] OTHER ->
                    /\ runner' = LogEach(r0, ItemLogs(runner.kind, items))
                    /\ observed' = IF items = <<>> THEN observed
                                   ELSE Late(observed)
    /\ UNCHANGED <<svars, xvars, rvars, avars, qvars>>

\* The engine's stream ends or raises.
RunnerStreamEnd ==
    /\ runner.pc = "dispatch"
    /\ \E ok \in BOOLEAN, found \in {"some", "none", "raise"} :
          CASE runner.kind = "agent" ->
                 /\ runner' = Yield(runner, "finally")
                 /\ observed' = Emit(observed, IF ok THEN "agent_complete"
                                                ELSE "error")
            [] runner.kind # "agent" /\ ok ->
                 /\ runner' = RunnerCollect(runner, found)
                 /\ observed' = Enter(observed, CollectSteps(runner'))
            [] OTHER ->
                 /\ runner' = RunnerRaise(runner)
                 /\ UNCHANGED observed
    /\ UNCHANGED <<svars, xvars, rvars, avars, qvars>>

\* The extraction call returns (it never raises): the success result.
RunnerExtractDone ==
    /\ runner.pc = "extract"
    /\ runner' = RunnerFinally(ReturnResult(Log(runner, "extracted"), "success",
                                            "extracted", "none", "screenshot"))
    /\ UNCHANGED observed
    /\ UNCHANGED <<svars, xvars, rvars, avars, qvars>>

\* computer.disconnect() returns, and run() logs it, or raises.
RunnerTeardownDone ==
    /\ runner.pc = "teardown"
    /\ \E ok \in BOOLEAN :
          runner' = [(IF ok /\ runner.kind # "agent"
                      THEN Log(runner, "disconnected") ELSE runner)
                       EXCEPT !.pc = "done"]
    /\ UNCHANGED observed
    /\ UNCHANGED <<svars, xvars, rvars, avars, qvars>>

\* Where run() is, for a stop() that arrives now.
RunnerPlace ==
    IF runner.pc = "yield"
    THEN (IF runner.resume = "batch" THEN "batch" ELSE "yield")
    ELSE runner.pc

\* stop() while run() is suspended or after it returned: the API runners log
\* "Stopping task...", all clear the flag.
RunnerStop ==
    /\ runner.pc # "new"
    /\ runner.stops < MaxStops
    /\ runner' = [(IF runner.kind = "agent" THEN runner
                   ELSE Log(runner, "stopping"))
                    EXCEPT !.is_running = FALSE, !.stops = @ + 1]
    /\ observed' = [observed EXCEPT !.stop_at =
                      IF @ = "none" THEN RunnerPlace ELSE @]
    /\ UNCHANGED <<svars, xvars, rvars, avars, qvars>>

\* The event loop runs the oldest stream_log task not yet started: its send
\* completes, raises, or never completes.
LogTaskRun ==
    /\ \E i \in DOMAIN runner.log_tasks :
          /\ runner.log_tasks[i].state = "pending"
          /\ \A j \in 1..(i - 1) : runner.log_tasks[j].state # "pending"
          /\ \E out \in {"sent", "failed", "stuck"} :
                /\ out # "sent" => runner.faults < MaxFaults
                /\ runner' = [runner EXCEPT
                                !.log_tasks[i].state = out,
                                !.faults = IF out = "sent" THEN @ ELSE @ + 1]
    /\ UNCHANGED observed
    /\ UNCHANGED <<svars, xvars, rvars, avars, qvars>>

RunnerIdle ==
    /\ runner = NewRunner("bus", FALSE)
    /\ observed = NothingObserved

InitRunner ==
    /\ runner \in {NewRunner(k, cb) : k \in RunnerKinds, cb \in BOOLEAN}
    /\ runner.kind = "agent" => ~runner.callback
    /\ observed = NothingObserved

NextRunner ==
    \/ RunnerStart
    \/ RunnerNext
    \/ RunnerConnectDone
    \/ RunnerResult
    \/ RunnerStreamEnd
    \/ RunnerExtractDone
    \/ RunnerTeardownDone
    \/ RunnerStop
    \/ LogTaskRun

(***************************************************************************)
(* Part 4: the trajectories directory shared by every API run of the       *)
(* process, whether started by a session's run_api or by a REST request.   *)
(*   clock   the wall clock in whole seconds                               *)
(*   runs    the runs: kind, position, trajectory_path, the files its      *)
(*           directory scan saw and the files it selected, in order        *)
(*   files   the image files: the directory, the modification time and the *)
(*           run whose engine wrote the file                               *)
(***************************************************************************)
MaxRuns == 2

MaxClock == 1

MaxFiles == 3

MaxMtime == 3

\* A run before create_agent: trajectory_path is None.
NewRun(kind) ==
    [kind |-> kind, pc |-> "connect", path |-> <<"none", 0>>, scanned |-> {},
     collected |-> <<>>]

\* create_agent: run_id = datetime.now().strftime("%Y%m%d_%H%M%S") and
\* trajectory_path = <base>/<kind>_api_<run_id>.
TrajectoryPath(kind, now) == <<kind, now>>

FilesIn(path) == {f \in files : f.path = path}

\* glob.glob(pattern, recursive=True): the matching files in some order.
GlobOrders(S) ==
    {o \in [1..Cardinality(S) -> S] : \A f \in S : \E i \in DOMAIN o : o[i] = f}

\* A selection that takes the first file glob returned.
Latest_First(order) == order[1]

\* max(screenshots, key=os.path.getmtime): the first file of the list whose
\* modification time no other file exceeds.
Latest(order) ==
    order[CHOOSE i \in DOMAIN order :
             /\ \A j \in DOMAIN order : order[j].mtime <= order[i].mtime
             /\ \A j \in 1..(i - 1) : order[j].mtime < order[i].mtime]

\* One step of the stable sort: f goes behind the files that are not newer.
InsertByMtime(sorted, f) ==
    LET k == Cardinality({j \in DOMAIN sorted : sorted[j].mtime <= f.mtime})
    IN SubSeq(sorted, 1, k) \o <<f>> \o SubSeq(sorted, k + 1, Len(sorted))

\* screenshots.sort(key=os.path.getmtime)
RECURSIVE SortByMtime(_)
SortByMtime(order) ==
    IF order = <<>> THEN <<>>
    ELSE InsertByMtime(SortByMtime(SubSeq(order, 1, Len(order) - 1)),
                       order[Len(order)])

\* _get_latest_screenshot / _get_all_screenshots on glob's list.
Select(kind, order) ==
    IF order = <<>> THEN <<>>
    ELSE IF kind = "bus" THEN <<Latest(order)>>
    ELSE SortByMtime(order)

\* POST /api/buses, POST /api/contingency or a session's run_api: a new
\* runner and its run() up to computer.run().
ArtStart(kind) ==
    /\ Len(runs) < MaxRuns
    /\ runs' = Append(runs, NewRun(kind))
    /\ UNCHANGED <<clock, files>>
    /\ UNCHANGED <<svars, xvars, rvars, nvars, qvars>>

\* A second passes.
Tick ==
    /\ clock < MaxClock
    /\ clock' = clock + 1
    /\ UNCHANGED <<runs, files>>
    /\ UNCHANGED <<svars, xvars, rvars, nvars, qvars>>

\* create_agent: the path from the clock, os.makedirs(exist_ok=True), and the
\* engine is given the directory.
ArtCreateAgent(i) ==
    /\ runs[i].pc = "connect"
    /\ runs' = [runs EXCEPT ![i].path = TrajectoryPath(runs[i].kind, clock),
                            ![i].pc = "dispatch"]
    /\ UNCHANGED <<clock, files>>
    /\ UNCHANGED <<svars, xvars, rvars, nvars, qvars>>

\* The engine of run i saves a screenshot into its trajectory_dir.
ArtWrite(i, mtime) ==
    /\ runs[i].pc = "dispatch"
    /\ Cardinality(files) < MaxFiles
    /\ files' = files \cup {[path |-> runs[i].path, id |-> Cardinality(files) + 1,
                             mtime |-> mtime, by |-> i]}
    /\ UNCHANGED <<clock, runs>>
    /\ UNCHANGED <<svars, xvars, rvars, nvars, qvars>>

\* The directory scan of run i after its loop.
ArtCollect(i) ==
    /\ runs[i].pc = "dispatch"
    /\ \E order \in GlobOrders(FilesIn(runs[i].path)) :
          runs' = [runs EXCEPT ![i].scanned = FilesIn(runs[i].path),
                               ![i].collected = Select(runs[i].kind, order),
                               ![i].pc = "done"]
    /\ UNCHANGED <<clock, files>>
    /\ UNCHANGED <<svars, xvars, rvars, nvars, qvars>>

ArtifactsIdle ==
    /\ clock = 0
    /\ runs = <<>>
    /\ files = {}

NextArtifacts ==
    \/ \E kind \in {"bus", "contingency"} : ArtStart(kind)
    \/ Tick
    \/ \E i \in DOMAIN runs : ArtCreateAgent(i)
    \/ \E i \in DOMAIN runs, mtime \in 1..MaxMtime : ArtWrite(i, mtime)
    \/ \E i \in DOMAIN runs : ArtCollect(i)

(***************************************************************************)
(* Part 5: one extraction call seen from the oracle's side. An image       *)
(* string is a sequence of lexical tokens:                                 *)
(*   "data:"   the scheme        "png", "jpeg"   image/png, image/jpeg     *)
(*   ";base64" the encoding      ","   a comma   "b"   base64 characters   *)
(***************************************************************************)
MaxImageLen == 5

MaxImages == 2

ImageStrings ==
    UNION {[1..n -> {"data:", "png", "jpeg", ";base64", ",", "b"}] :
              n \in 0..MaxImageLen}

\* Images told apart by their payload, for the calls with several images.
SampleImages ==
    {<<"b">>, <<"data:", "png", ";base64", ",", "b", "b">>,
     <<"data:", "jpeg", ";base64", ",", "b", "b", "b">>}

AllVariants == Variants \cup {"grid"}

\* s.split(",", 1)
SplitOnce(s) ==
    IF \E i \in DOMAIN s : s[i] = ","
    THEN LET i == SetMin({j \in DOMAIN s : s[j] = ","})
         IN <<SubSeq(s, 1, i - 1), SubSeq(s, i + 1, Len(s))>>
    ELSE <<s>>

\* A normalization that never looks for jpeg.
Normalize_AlwaysPng(image) ==
    LET parts == SplitOnce(image)
    IN IF image # <<>> /\ image[1] = "data:" /\ Len(parts) = 2
       THEN [type |-> "image", media_type |-> "image/png", data |-> parts[2]]
       ELSE [type |-> "image", media_type |-> "image/png", data |-> image]

\* The image item built from an input string: startswith("data:"), the split
\* at the first comma, `"jpeg" in parts[0]`.
Normalize(image) ==
    LET parts == SplitOnce(image)
    IN IF image # <<>> /\ image[1] = "data:" /\ Len(parts) = 2
       THEN [type |-> "image",
             media_type |-> IF \E i \in DOMAIN parts[1] : parts[1][i] = "jpeg"
                            THEN "image/jpeg" ELSE "image/png",
             data |-> parts[2]]
       ELSE [type |-> "image", media_type |-> "image/png", data |-> image]

\* The text item with the variant's prompt.
Prompt(variant) == [type |-> "text", media_type |-> "none", data |-> <<variant>>]

\* A content list with the prompt in front.
RequestContent_TextFirst(variant, images) ==
    <<Prompt(variant)>> \o [i \in DOMAIN images |-> Normalize(images[i])]

\* The "content" of the request's user message.
RequestContent(variant, images) ==
    [i \in DOMAIN images |-> Normalize(images[i])] \o <<Prompt(variant)>>

NewRequest(variant, images) ==
    [variant |-> variant, images |-> images, pc |-> "call", posts |-> <<>>,
     outcome |-> "none"]

\* The call up to `await client.post(...)`.
ReqPost ==
    /\ req.pc = "call"
    /\ req' = [req EXCEPT !.pc = "wait",
                          !.posts = Append(@, RequestContent(req.variant,
                                                             req.images))]
    /\ UNCHANGED <<svars, xvars, rvars, nvars, avars>>

\* The post returns a response or raises; either way the call returns.
ReqReturn ==
    /\ req.pc = "wait"
    /\ \E out \in {"ok", "http_error", "exception"} :
          req' = [req EXCEPT !.pc = "returned", !.outcome = out]
    /\ UNCHANGED <<svars, xvars, rvars, nvars, avars>>

RequestIdle == req = NewRequest("bus", <<>>)

InitRequest ==
    \E variant \in AllVariants :
       \E images \in {<<i>> : i \in ImageStrings} \cup
                     UNION {[1..n -> SampleImages] : n \in 0..MaxImages} :
          /\ variant # "multi" => Len(images) = 1
          /\ req = NewRequest(variant, images)

NextRequest ==
    \/ ReqPost
    \/ ReqReturn

\* Nothing of parts 3 to 5 is in progress.
ComponentsIdle == RunnerIdle /\ ArtifactsIdle /\ RequestIdle


(***************************************************************************)
(* The session's specification.                                            *)
(***************************************************************************)
vars == <<hpc, hendpoint, hsent, lastcmd, ncmd, registered, agent_service,
          api_service, agent_task, api_task, svcs, tasks,
          xvariant, xoracle, xres, xpc,
          active_connections, lock, sockets, calls, lastcall, ncalls,
          joined, left, runner, observed, clock, runs, files, req>>

\* No extraction call of its own is in progress in the session's
\* specification.
ExtractIdle ==
    /\ xvariant = "bus"
    /\ xoracle = [kind |-> "empty", code |-> "none", text |-> <<>>]
    /\ xres = NoResult
    /\ xpc = "idle"

Init == InitSession /\ ExtractIdle /\ InitRegistry /\ ComponentsIdle

Next ==
    \/ Connect
    \/ StartAgent
    \/ \E e \in Endpoints : RunApi(e)
    \/ RunApiCreate
    \/ StopAgent
    \/ StopAgentSettled
    \/ StopApiSettled
    \/ Cleanup
    \/ \E t \in TaskIds : AgentStart(t)
    \/ \E t \in TaskIds : AgentResume(t)
    \/ \E t \in TaskIds : AgentConnectDone(t)
    \/ \E t \in TaskIds : AgentEvent(t)
    \/ \E t \in TaskIds : AgentStreamEnd(t)
    \/ \E t \in TaskIds : AgentTeardownDone(t)
    \/ \E t \in TaskIds : AgentCancel(t)
    \/ \E t \in TaskIds : AgentFinalize(t)
    \/ \E t \in TaskIds : ApiStart(t)
    \/ \E t \in TaskIds : ApiConnectDone(t)
    \/ \E t \in TaskIds : ApiEvent(t)
    \/ \E t \in TaskIds : ApiStreamEnd(t)
    \/ \E t \in TaskIds : ApiStreamRaise(t)
    \/ \E t \in TaskIds : ApiExtractDone(t)
    \/ \E t \in TaskIds : ApiTeardownDone(t)
    \/ \E t \in TaskIds : ApiSendResp(t)
    \/ \E t \in TaskIds : ApiFinish(t)
    \/ \E t \in TaskIds : ApiCancel(t)

Spec == Init /\ [][Next]_vars

(***************************************************************************)
(* The extraction pipeline as a state machine: one call per behaviour, on  *)
(* any variant and any oracle outcome.                                      *)
(***************************************************************************)
InitExtract ==
    /\ InitSession
    /\ InitRegistry
    /\ ComponentsIdle
    /\ xvariant \in Variants
    /\ xoracle \in OracleOutcomes
    /\ xres = NoResult
    /\ xpc = "call"

ExtractCall ==
    /\ xpc = "call"
    /\ xres' = extract(xvariant, xoracle)
    /\ xpc' = "returned"
    /\ UNCHANGED <<xvariant, xoracle>>
    /\ UNCHANGED <<svars, rvars, cvars>>

NextExtract == ExtractCall

SpecExtract == InitExtract /\ [][NextExtract]_vars

(***************************************************************************)
(* The registry's specification: any interleaving of calls on the          *)
(* ConnectionManager.                                                      *)
(***************************************************************************)
InitReg == InitSession /\ ExtractIdle /\ InitRegistry /\ ComponentsIdle

NextRegistry ==
    \/ \E ws \in Channels : CallConnect(ws)
    \/ \E k \in Slots : ConnectAccepted(k)
    \/ \E k \in Slots : ConnectAppend(k)
    \/ \E ws \in Channels : CallDisconnect(ws)
    \/ \E k \in Slots : DisconnectRun(k)
    \/ \E ws \in Channels : CallSendJson(ws)
    \/ \E k \in Slots : SendJsonDone(k)
    \/ \E k \in Slots : SendJsonDisconnect(k)
    \/ CallBroadcast
    \/ \E k \in Slots : BroadcastAcquire(k)
    \/ \E k \in Slots : BroadcastSent(k)
    \/ \E k \in Slots : BroadcastCleanup(k)
    \/ \E ws \in Channels : Break(ws)

SpecRegistry == InitReg /\ [][NextRegistry]_vars

\* Some step of the call in slot k.
CallStep(k) ==
    \/ ConnectAccepted(k) \/ ConnectAppend(k) \/ DisconnectRun(k)
    \/ SendJsonDone(k) \/ SendJsonDisconnect(k)
    \/ BroadcastAcquire(k) \/ BroadcastSent(k) \/ BroadcastCleanup(k)

\* The registry under the event loop's scheduling: every accept and every
\* channel send returns or raises, and a flow that can take the lock does.
SpecRegistryLive ==
    /\ InitReg
    /\ [][NextRegistry]_vars
    /\ \A k \in Slots : WF_vars(CallStep(k))

(***************************************************************************)
(* The session without stop_agent and without a disconnect, under the      *)
(* event loop's scheduling: a task that is ready to run is run, and every  *)
(* collaborator call a task waits for returns or raises. The engine's      *)
(* stream is finite (MaxEvents); the client sends MaxLiveCmds commands.    *)
(***************************************************************************)
\* The commands of a session in which every job is followed to its end.
MaxLiveCmds == 2

NextLive ==
    \/ Connect
    \/ ncmd < MaxLiveCmds /\ StartAgent
    \/ \E e \in Endpoints : ncmd < MaxLiveCmds /\ RunApi(e)
    \/ RunApiCreate
    \/ \E t \in TaskIds : AgentStart(t)
    \/ \E t \in TaskIds : AgentResume(t)
    \/ \E t \in TaskIds : AgentConnectDone(t)
    \/ \E t \in TaskIds : AgentEvent(t)
    \/ \E t \in TaskIds : AgentStreamEnd(t)
    \/ \E t \in TaskIds : AgentTeardownDone(t)
    \/ \E t \in TaskIds : ApiStart(t)
    \/ \E t \in TaskIds : ApiConnectDone(t)
    \/ \E t \in TaskIds : ApiEvent(t)
    \/ \E t \in TaskIds : ApiStreamEnd(t)
    \/ \E t \in TaskIds : ApiStreamRaise(t)
    \/ \E t \in TaskIds : ApiExtractDone(t)
    \/ \E t \in TaskIds : ApiTeardownDone(t)
    \/ \E t \in TaskIds : ApiSendResp(t)
    \/ \E t \in TaskIds : ApiFinish(t)

\* Some step of background task t.
TaskStep(t) ==
    /\ t \in TaskIds
    /\ \/ AgentStart(t) \/ AgentResume(t) \/ AgentConnectDone(t)
       \/ AgentEvent(t) \/ AgentStreamEnd(t) \/ AgentTeardownDone(t)
       \/ ApiStart(t) \/ ApiConnectDone(t) \/ ApiEvent(t) \/ ApiStreamEnd(t)
       \/ ApiStreamRaise(t) \/ ApiExtractDone(t) \/ ApiTeardownDone(t)
       \/ ApiSendResp(t) \/ ApiFinish(t)

SpecLive ==
    /\ Init
    /\ [][NextLive]_vars
    /\ WF_vars(RunApiCreate)
    /\ \A t \in 1..MaxTasks : WF_vars(TaskStep(t))

(***************************************************************************)
(* The specifications of a runner on its own, of the trajectories          *)
(* directory and of an extraction call's request.                          *)
(***************************************************************************)
InitRunnerAlone ==
    /\ InitSession /\ ExtractIdle /\ InitRegistry
    /\ InitRunner /\ ArtifactsIdle /\ RequestIdle

SpecRunner == InitRunnerAlone /\ [][NextRunner]_vars

InitArtifacts ==
    /\ InitSession /\ ExtractIdle /\ InitRegistry
    /\ RunnerIdle /\ ArtifactsIdle /\ RequestIdle

SpecArtifacts == InitArtifacts /\ [][NextArtifacts]_vars

InitRequestAlone ==
    /\ InitSession /\ ExtractIdle /\ InitRegistry
    /\ RunnerIdle /\ ArtifactsIdle /\ InitRequest

SpecRequest == InitRequestAlone /\ [][NextRequest]_vars

(***************************************************************************)
(* Properties.                                                             *)
(***************************************************************************)
AgentTasksInFlight == {t \in TaskIds : tasks[t].mode = "agent" /\ InFlight(t)}

ApiTasksInFlight == {t \in TaskIds : tasks[t].mode = "api" /\ InFlight(t)}

\* C1: agent-mode single-flight. At most one agent-mode background task is
\* in flight after every step, and a start_agent handled while an agent task
\* is in flight sends the "Agent is already running" notice and creates
\* neither a runner nor a task.
C1_AgentSingleFlight ==
    [][/\ Cardinality(AgentTasksInFlight') <= 1
       /\ (ncmd' = ncmd + 1 /\ lastcmd' = "start_agent" /\ AgentTasksInFlight # {})
            => (hsent' = "already_agent" /\ tasks' = tasks /\ svcs' = svcs)]_vars

\* C2: named-API single-flight. At most one API background task is in flight
\* after every step, and a run_api handled while an API task is in flight is
\* rejected with "An API is already running" and starts nothing.
C2_ApiSingleFlight ==
    [][/\ Cardinality(ApiTasksInFlight') <= 1
       /\ (ncmd' = ncmd + 1 /\ lastcmd' = "run_api" /\ ApiTasksInFlight # {})
            => (hsent' = "already_api" /\ hpc' = "recv" /\ tasks' = tasks)]_vars

\* C3: a session never has an agent-mode job and a named-API job in flight
\* at the same time.
C3_OneJobAcrossModes == AgentTasksInFlight = {} \/ ApiTasksInFlight = {}

\* The step in which _stop_agent returns.
StopCompletes ==
    /\ lastcmd' = "stop_agent"
    /\ hpc' = "recv"
    /\ \/ hpc \in {"stop_wait_agent", "stop_wait_api"}
       \/ ncmd' = ncmd + 1

\* C4: when the handling of a stop_agent completes (the task handles were
\* cancelled and awaited), the "stopped" status has been sent and no runner
\* of the session has is_running set.
C4_StopSettles ==
    [][StopCompletes =>
         /\ hsent' = "stopped"
         /\ \A s \in 1..Len(svcs') : ~svcs'[s].is_running]_vars

\* C5: after the disconnect handling has completed, the channel is not
\* registered and no background task of the session is still in flight.
C5_DisconnectStopsJobs ==
    hpc = "closed" => (~registered /\ \A t \in TaskIds : Settled(t))

ApiTasks == {t \in TaskIds : tasks[t].mode = "api"}

\* What run() gives for a step that raised: the error result carrying the
\* failure and an error-level log entry.
ErrorResultFor(t) ==
    /\ tasks[t].status = "error"
    /\ tasks[t].error = tasks[t].raised
    /\ tasks[t].errlog

\* C6 as claimed: no run() lets anything escape, a cancellation included:
\* every run that has ended returned a result, and the error result if a
\* step raised.
C6_NothingEscapes ==
    \A t \in ApiTasks :
        tasks[t].exit # "none" =>
            /\ tasks[t].exit = "returned"
            /\ tasks[t].raised # "none" => ErrorResultFor(t)

\* C6 as amended: a run in which a step raised an Exception returns the error
\* result with the failure's message and an error-level log entry; a
\* cancellation of the run's task is the one thing that leaves run(), and
\* nothing else does.
C6_NoExceptionEscapes ==
    \A t \in ApiTasks :
        tasks[t].exit # "none" =>
            IF tasks[t].raised = "CancelledError"
            THEN tasks[t].exit = "escaped"
            ELSE /\ tasks[t].exit = "returned"
                 /\ tasks[t].raised # "none" => ErrorResultFor(t)

C6_Witness ==
    \E t \in ApiTasks :
        /\ tasks[t].exit = "returned"
        /\ tasks[t].raised = "configure"
        /\ ErrorResultFor(t)

\* C7: every run that acquired an automation session has had a disconnect of
\* that session attempted by the time its background task has settled.
C7_TeardownBeforeSettle ==
    \A t \in TaskIds :
        (Settled(t) /\ tasks[t].handle # "none") => tasks[t].handle = "disc"

\* A run() / run_task() invocation of the task is executing: entered, and
\* its finally not yet reached.
RunExecuting(t) == tasks[t].pc \in {"fwd", "connect", "events", "extract"}

RunsOn(s) == {t \in TaskIds : tasks[t].svc = s /\ RunExecuting(t)}

\* C8: the running flag tracks the run. The step that starts a run sets the
\* runner's flag, and after every step a runner on which no run is executing
\* has is_running false.
C8_FlagTracksRun ==
    [][/\ \A s \in 1..Len(svcs') : RunsOn(s)' = {} => ~svcs'[s].is_running
       /\ \A t \in TaskIds :
            (tasks[t].pc = "created" /\ RunExecuting(t)')
               => svcs'[tasks'[t].svc].is_running]_vars

\* A run left by cancellation, its runner's flag cleared.
C8_Witness ==
    \E t \in TaskIds :
        /\ tasks[t].pc = "cancelled"
        /\ tasks[t].svc # None
        /\ tasks[t].handle = "disc"
        /\ ~svcs[tasks[t].svc].is_running

\* C9: the extraction functions never raise: for every oracle outcome the
\* call returns a result object.
C9_ExtractNeverRaises ==
    xpc = "returned" => (xres.exc = "none" /\ xres.val.t = "obj")

\* A fenced block whose contents are not JSON: the JSONDecodeError raised in
\* the fallback code comes back as an error-shaped result.
C9_Witness ==
    /\ xpc = "returned"
    /\ xoracle.kind = "text"
    /\ FenceGroup(xoracle.text) # NoMatch
    /\ ~IsJSON(FenceGroup(xoracle.text))
    /\ xres.error = <<"str", "JSONDecodeError">>

\* What a strategy yields: the parse of its text, a failure without a match.
Strategy(match) ==
    IF match = NoMatch THEN [exc |-> "NoMatch", val |-> NoVal]
    ELSE json_loads(match)

\* The ordered fallback chain of the claim: the first strategy that succeeds
\* gives the result, a strategy that fails hands over to the next one, and
\* with none succeeding the explicit failure shape is returned.
FirstSuccessWins(variant, text) ==
    LET s1 == json_loads(text)
        s2 == Strategy(FenceGroup(text))
        s3 == Strategy(KeyMatch(variant, text))
    IN IF s1.exc = "none" THEN Returned(s1.val)
       ELSE IF s2.exc = "none" THEN Returned(s2.val)
       ELSE IF s3.exc = "none" THEN Returned(s3.val)
       ELSE ErrorShape(<<"Could not parse response">>, RawResponse(text))

\* C10: the parse policy is an ordered fallback chain where the first success
\* wins.
C10_FirstSuccessWins ==
    (xpc = "returned" /\ xoracle.kind = "text")
        => xres = FirstSuccessWins(xvariant, xoracle.text)

\* None of the three strategies yields a parsed value.
NoStrategyParses(variant, text) ==
    /\ json_loads(text).exc # "none"
    /\ Strategy(FenceGroup(text)).exc # "none"
    /\ Strategy(KeyMatch(variant, text)).exc # "none"

\* C11: whenever the oracle returned a content block and none of the three
\* strategies yields a parsed value (a fence or key match whose contents are
\* not JSON included), the result is exactly {<schema-key>: [], error:
\* "Could not parse response", raw_response: <first 500 characters>}.
C11_FailureShape ==
    (xpc = "returned" /\ xoracle.kind = "text"
        /\ NoStrategyParses(xvariant, xoracle.text))
        => xres = ErrorShape(<<"Could not parse response">>,
                             RawResponse(xoracle.text))

C13_OracleFailureIsSoft ==
    \A t \in ApiTasks :
        tasks[t].xresult.error # NoError =>
            /\ tasks[t].found = "some"
            /\ tasks[t].status = "success"
            /\ tasks[t].data = tasks[t].xresult
            /\ tasks[t].error = "none"

\* A run whose oracle call failed with HTTP 500, returned as a success.
C13_Witness ==
    \E t \in ApiTasks :
        /\ tasks[t].exit = "returned"
        /\ tasks[t].xresult.error = <<"API error", "500">>
        /\ tasks[t].resp.status = "success"
        /\ tasks[t].resp.data = tasks[t].xresult

\* C14: when the directory scan after the stream finds no image file, the
\* run's result has status "error" with the "No screenshot" message, nothing
\* is raised by it and the extraction oracle is not invoked, whether or not
\* a screenshot item was seen in the event stream.
C14_NoScreenshotIsError ==
    \A t \in ApiTasks :
        tasks[t].found = "none" =>
            /\ tasks[t].status = "error"
            /\ tasks[t].error = "no_screenshot"
            /\ "oracle" \notin tasks[t].steps
            /\ tasks[t].xresult = NoResult
            /\ tasks[t].raised \in {"none", "CancelledError"}
            /\ tasks[t].exit = "returned" => tasks[t].raised = "none"

\* A bus run that saw a screenshot item in the stream, found no file and
\* returned.
C14_Witness ==
    \E t \in ApiTasks :
        /\ tasks[t].found = "none"
        /\ tasks[t].seen
        /\ tasks[t].exit = "returned"
        /\ tasks[t].resp.error = "no_screenshot"

\* C15: a failure while connecting short-circuits the run: no directory is
\* allocated, no agent configured, no task dispatched, nothing collected, the
\* oracle not invoked, and the result is the error result carrying the
\* connection failure.
C15_ConnectFailureShortCircuits ==
    \A t \in ApiTasks :
        tasks[t].error = "connect" =>
            /\ tasks[t].steps = {}
            /\ tasks[t].found = "unset"
            /\ tasks[t].xresult = NoResult
            /\ tasks[t].status = "error"
            /\ tasks[t].exit = "returned" =>
                  (tasks[t].resp.status = "error" /\ tasks[t].resp.error = "connect")

\* computer.run() raised on an acquired session, and the run returned.
C15_Witness ==
    \E t \in ApiTasks :
        /\ tasks[t].error = "connect"
        /\ tasks[t].handle = "disc"
        /\ tasks[t].exit = "returned"

Sent(t, m) == \E i \in 1..Len(tasks[t].sent) : tasks[t].sent[i] = m

\* C19: within one job the terminal message follows every log message of the
\* job: when run_api hands the api_response to the channel, no log entry of
\* the run is still waiting for its stream_log task. (Log tasks run in the
\* order of their creation and the agent-mode forwarder sends in the order
\* of the yields.)
C19_TerminalAfterLogs ==
    \A t \in ApiTasks : Sent(t, "api_response") => tasks[t].late = {}

FullReply == <<"api_response", "completed">>

IsPrefix(a, b) == Len(a) <= Len(b) /\ a = SubSeq(b, 1, Len(a))

\* C20 as claimed: in the step in which an API background task settles, the
\* runner reference is cleared, and a task whose run() returned has sent one
\* api_response carrying the run's result followed by one "completed" status.
C20_ReplyThenClear ==
    [][\A t \in ApiTasks :
          (InFlight(t) /\ Settled(t)') =>
              /\ api_service' = None
              /\ tasks'[t].exit = "returned" =>
                    /\ tasks'[t].sent = FullReply
                    /\ tasks'[t].resp = Payload(tasks'[t])]_vars

\* C20 as amended: a task that had started clears the runner reference in
\* the step in which it settles; a task whose run() returned has sent one
\* api_response carrying the run's result, followed by one "completed"
\* status unless it was cancelled before that send.
C20_ReplyThenClearUnlessCancelled ==
    [][\A t \in ApiTasks :
          (InFlight(t) /\ Settled(t)') =>
              /\ tasks[t].pc # "created" => api_service' = None
              /\ tasks'[t].exit = "returned" =>
                    /\ tasks'[t].sent # <<>>
                    /\ IsPrefix(tasks'[t].sent, FullReply)
                    /\ tasks'[t].resp = Payload(tasks'[t])
                    /\ tasks'[t].pc = "done" => tasks'[t].sent = FullReply]_vars

\* A bus or contingency job that ran to its end.
C20_Witness ==
    \E t \in ApiTasks :
        /\ tasks[t].pc = "done"
        /\ tasks[t].sent = FullReply
        /\ tasks[t].resp.status = "success"
        /\ api_service = None

\* The call of slot k returns in this step.
Returns(k) == calls[k] # Idle /\ calls'[k] = Idle

\* The call of slot k takes a step.
Steps(k) == calls[k] # Idle /\ calls'[k] # calls[k]

\* C16: self-healing membership. A send_json whose send raised has removed
\* that channel from the registry when it returns, no exception leaves
\* send_json, and no step of it removes another channel.
C16_SendFailureUnregisters ==
    [][\A k \in Slots :
          calls[k].kind = "send_json" =>
            /\ Steps(k) =>
                  Range(active_connections) \ {calls[k].ws}
                      \subseteq Range(active_connections')
            /\ Returns(k) =>
                  /\ ~lastcall'.raised
                  /\ lastcall'.failed # <<>> =>
                        calls[k].ws \notin Range(active_connections')]_vars

\* A send to a registered channel raised, the call has returned, and another
\* channel is still registered.
C16_Witness ==
    /\ lastcall.kind = "send_json"
    /\ lastcall.failed = <<lastcall.ws>>
    /\ lastcall.ws \in joined
    /\ lastcall.ws \notin Range(active_connections)
    /\ active_connections # <<>>

Count(seq, c) == Cardinality({i \in 1..Len(seq) : seq[i] = c})

\* C17: broadcast isolation. When a broadcast returns, every channel of the
\* registry it iterated whose send did not raise has received the message
\* exactly once, every channel whose send raised is out of the registry, and
\* no step of the broadcast removes a channel whose send did not raise.
C17_BroadcastIsolation ==
    [][\A k \in Slots :
          calls[k].kind = "broadcast" =>
            /\ Steps(k) =>
                  Range(active_connections) \ Range(active_connections')
                      \subseteq Range(calls[k].failed)
            /\ Returns(k) =>
                  /\ ~lastcall'.raised
                  /\ \A c \in Range(lastcall'.snapshot) :
                        IF c \in Range(lastcall'.failed)
                        THEN /\ c \notin Range(active_connections')
                             /\ Count(lastcall'.delivered, c) = 0
                        ELSE Count(lastcall'.delivered, c) = 1]_vars

\* A broadcast over three channels of which the first raised: the two after
\* it received the message and are the registry.
C17_Witness ==
    /\ lastcall.kind = "broadcast"
    /\ Len(lastcall.snapshot) = MaxChannels
    /\ lastcall.failed = <<lastcall.snapshot[1]>>
    /\ lastcall.delivered = Tail(lastcall.snapshot)
    /\ active_connections = Tail(lastcall.snapshot)

NoDuplicates(seq) ==
    \A i, j \in 1..Len(seq) : seq[i] = seq[j] => i = j

Quiescent == \A k \in Slots : calls[k] = Idle

\* The registry holds no handle twice and only connected handles, misses no
\* connected handle that was neither disconnected nor failed on a send, and
\* with no call in progress holds exactly those.
RegistryConsistent ==
    /\ NoDuplicates(active_connections)
    /\ Range(active_connections) \subseteq joined
    /\ joined \ left \subseteq Range(active_connections)
    /\ Quiescent => Range(active_connections) = joined \ left

\* C18: registry membership. After every step of any interleaving of
\* connect, disconnect, send_json and broadcast the registry is consistent,
\* and a disconnect of a handle that is not registered leaves the registry
\* unchanged.
C18_RegistryMembership ==
    [][/\ RegistryConsistent'
       /\ \A k \in Slots :
            (calls[k].kind = "disconnect" /\ Returns(k)
                /\ calls[k].ws \notin Range(active_connections))
              => active_connections' = active_connections]_vars

\* A disconnect of a handle that was never connected has returned, with
\* other handles registered and one removed after a failed send.
C18_Witness ==
    /\ lastcall.kind = "disconnect"
    /\ lastcall.ws \notin joined
    /\ active_connections # <<>>
    /\ left # {}
    /\ Quiescent

\* C21: a runner's log lists only grow by appending, and the list carried by
\* the RunResult is the same after every step that follows the construction
\* of the result (the teardown's log entry, a later stop()).
C21_LogsFrozen ==
    [][/\ \A ref \in DOMAIN runner.heap :
             IsPrefix(runner.heap[ref], runner'.heap[ref])
       /\ runner.result # NoRunResult =>
             runner'.heap[runner.result.logs] = runner.heap[runner.result.logs]]_vars

\* The entries of self.logs and the entries handed to the subscriber, both in
\* order.
Entries == [i \in DOMAIN runner.heap[runner.logs] |-> <<runner.logs, i>>]

Dispatched == [i \in DOMAIN runner.log_tasks |-> runner.log_tasks[i].entry]

C23_StopCheckpoints ==
    runner.kind # "agent" =>
       /\ observed.stop_at = "connect" =>
             observed.steps \cap {"configure", "dispatch", "collect", "oracle"} = {}
       /\ observed.stop_at = "dispatch" =>
             observed.steps \cap {"collect", "oracle"} = {}

\* C24: after a stop() that arrived in the dispatch step (run() waiting for
\* the next result, or run_task suspended at the yield of an item) no item of
\* the engine's stream is logged or yielded.
C24_NoEventAfterStop == ~observed.late

\* The files a scan saw have pairwise distinct modification times.
DistinctMtimes(S) == \A f, g \in S : f # g => f.mtime # g.mtime

Newest(S) == CHOOSE f \in S : \A g \in S : g.mtime <= f.mtime

\* C26: two runs of the same runner kind never have the same trajectory
\* location, and every file a run's scan sees was written by that run.
C26_FreshLocationPerRun ==
    /\ \A i, j \in DOMAIN runs :
          (i # j /\ runs[i].kind = runs[j].kind
              /\ runs[i].pc # "connect" /\ runs[j].pc # "connect")
            => runs[i].path # runs[j].path
    /\ \A i \in DOMAIN runs : \A f \in runs[i].scanned : f.by = i

\* C27: when the scan of a run saw a non-empty set of files with pairwise
\* distinct modification times, the single-artifact runner selected exactly
\* the newest file, and the multi-artifact runner returned every file once,
\* in ascending order of modification time, the newest last.
C27_ArtifactSelection ==
    \A i \in DOMAIN runs :
       (runs[i].pc = "done" /\ runs[i].scanned # {}
           /\ DistinctMtimes(runs[i].scanned))
         => LET got == runs[i].collected
            IN IF runs[i].kind = "bus"
               THEN got = <<Newest(runs[i].scanned)>>
               ELSE /\ Len(got) = Cardinality(runs[i].scanned)
                    /\ {got[k] : k \in DOMAIN got} = runs[i].scanned
                    /\ \A k \in 1..(Len(got) - 1) :
                          got[k].mtime < got[k + 1].mtime
                    /\ got[Len(got)] = Newest(runs[i].scanned)

\* Both kinds of runner have scanned a directory of files with distinct
\* modification times, the multi-artifact runner one in which a file written
\* later is older than one written earlier.
C27_Witness ==
    \E i, j \in DOMAIN runs :
       /\ runs[i].kind = "bus" /\ runs[i].pc = "done"
       /\ Cardinality(runs[i].scanned) >= 1
       /\ runs[j].kind = "contingency" /\ runs[j].pc = "done"
       /\ Cardinality(runs[j].scanned) >= 2
       /\ DistinctMtimes(runs[j].scanned)
       /\ \E f, g \in runs[j].scanned : f.id < g.id /\ f.mtime > g.mtime

\* An input of the form data:<mime>;base64,<payload> naming image/png or
\* image/jpeg, an input without the data: prefix, and what the claim says is
\* sent for either.
WellFormed(image) ==
    /\ Len(image) >= 4
    /\ image[1] = "data:"
    /\ image[2] \in {"png", "jpeg"}
    /\ image[3] = ";base64"
    /\ image[4] = ","

NoPrefix(image) == image = <<>> \/ image[1] # "data:"

Expected(image) ==
    IF WellFormed(image)
    THEN [type |-> "image",
          media_type |-> IF image[2] = "jpeg" THEN "image/jpeg" ELSE "image/png",
          data |-> SubSeq(image, 5, Len(image))]
    ELSE [type |-> "image", media_type |-> "image/png", data |-> image]

\* C28: in every request of every extraction variant, the item sent for an
\* input data:<mime>;base64,<payload> carries exactly <payload> and the mime
\* type the prefix names (image/jpeg or image/png), and the item sent for an
\* input without a data: prefix carries the whole input as image/png.
C28_ImageNormalization ==
    \A p \in DOMAIN req.posts : \A i \in DOMAIN req.images :
       (WellFormed(req.images[i]) \/ NoPrefix(req.images[i]))
         => req.posts[p][i] = Expected(req.images[i])

\* The grid variant has posted a request for a data URL that names
\* image/jpeg and has a payload.
C28_Witness ==
    /\ req.variant = "grid"
    /\ req.posts # <<>>
    /\ WellFormed(req.images[1])
    /\ req.images[1][2] = "jpeg"
    /\ Len(req.images[1]) = 5
    /\ req.posts[1][1].media_type = "image/jpeg"

\* C29: an extraction call posts at most one request and has posted exactly
\* one when it returns, whatever the outcome of the post; the request holds
\* one image item per supplied image, in input order, and the instruction
\* text as its last item.
C29_OneRequestInOrder ==
    /\ Len(req.posts) <= 1
    /\ req.pc = "returned" => Len(req.posts) = 1
    /\ \A p \in DOMAIN req.posts :
          LET content == req.posts[p]
          IN /\ Len(content) = Len(req.images) + 1
             /\ content[Len(content)].type = "text"
             /\ \A i \in DOMAIN req.images :
                   /\ content[i].type = "image"
                   /\ (WellFormed(req.images[i]) \/ NoPrefix(req.images[i]))
                        => content[i].data = Expected(req.images[i]).data

\* The multi-image variant has returned after a post that raised, having
\* sent two different images.
C29_Witness ==
    /\ req.variant = "multi"
    /\ req.pc = "returned"
    /\ req.outcome = "exception"
    /\ Len(req.images) = 2
    /\ req.images[1] # req.images[2]
    /\ Len(req.posts) = 1

\* The job of task t has ended with an error: its run returned the error
\* result, or its terminal message was the error message (of run_task or of
\* run_api's own handler).
JobError(t) ==
    /\ tasks[t].pc = "done"
    /\ \/ tasks[t].status = "error"
       \/ tasks[t].error # "none"
       \/ Sent(t, "error")

Terminal(t) ==
    IF tasks[t].mode = "agent"
    THEN tasks[t].resume = "finally"
    ELSE Sent(t, "api_response") \/ Sent(t, "error")

\* C30: with no stop and no disconnect, every background task that was
\* created for an accepted start_agent or run_api eventually has sent its
\* terminal message and has terminated.
C30_JobsTerminate ==
    \A t \in 1..MaxTasks :
       (t \in TaskIds) ~> (t \in TaskIds /\ tasks[t].pc = "done" /\ Terminal(t))

\* Two jobs were accepted, one of each mode; both have terminated, the
\* agent job with agent_complete and the API job with its api_response.
C30_Witness ==
    /\ Len(tasks) = 2
    /\ \E a, b \in TaskIds :
          /\ tasks[a].mode = "agent" /\ tasks[a].pc = "done"
          /\ tasks[a].error = "none" /\ tasks[a].ev > 0
          /\ tasks[b].mode = "api" /\ tasks[b].pc = "done"
          /\ tasks[b].sent = <<"api_response", "completed">>

\* The background tasks the session holds a handle of.
Held == {agent_task, api_task} \ {None}

\* C31: after every step each background task of the session that is in
\* flight is one the session holds the handle of, and when the handling of a
\* stop_agent completes (the "stopped" status was sent) no background task
\* the session ever created is still in flight.
C31_StopLeavesNoTask ==
    [][/\ \A t \in TaskIds' : InFlight(t)' => t \in Held'
       /\ StopCompletes => \A t \in TaskIds' : Settled(t)']_vars

\* The steps in which a start_agent / a run_api is handled with its guard
\* closed.
RejectsAgent == ncmd' = ncmd + 1 /\ lastcmd' = "start_agent" /\ AgentGuard

RejectsApi == ncmd' = ncmd + 1 /\ lastcmd' = "run_api" /\ ApiGuard

\* What a rejection leaves as it was: the runner references, the task
\* handles, every runner and every task, the registration and the receive
\* loop.
RejectionFrame ==
    UNCHANGED <<agent_service, api_service, agent_task, api_task, svcs, tasks,
                registered, hpc, hendpoint>>

\* A run is executing on runner s, and no cancellation of it is pending.
JobContinues(s) == \E t \in RunsOn(s) : ~tasks[t].cancel

\* C32: a start_agent (run_api) handled while the agent (API) runner is
\* running sends the "already running" error message and changes nothing
\* else: references, handles, runners and tasks are as before, and the job
\* on the runner is still executing, neither stopped nor cancelled.
C32_RejectionIsNotice ==
    [][/\ RejectsAgent => /\ hsent' = "already_agent"
                          /\ RejectionFrame
                          /\ svcs'[agent_service'].is_running
                          /\ JobContinues(agent_service)'
       /\ RejectsApi => /\ hsent' = "already_api"
                        /\ RejectionFrame
                        /\ svcs'[api_service'].is_running
                        /\ JobContinues(api_service)']_vars

\* A run_api was rejected while the one API job of the session waits for the
\* engine's next result.
C32_Witness ==
    /\ lastcmd = "run_api"
    /\ hsent = "already_api"
    /\ hpc = "recv"
    /\ Len(tasks) = 1
    /\ tasks[1].pc = "events"
    /\ api_service = tasks[1].svc
    /\ svcs[api_service].is_running

\* A message of task t's job is handed to the channel in this step: by
\* run_api, or by the forwarder for a message run_task yielded.
Sends(t) ==
    \/ tasks'[t].sent # tasks[t].sent
    \/ /\ tasks[t].mode = "agent"
       /\ tasks'[t].pc = "fwd"
       /\ tasks'[t] # tasks[t]

\* C34: from the "stopped" status of a stop_agent until the next command, no
\* message of a job started before that stop_agent is handed to the channel.
C34_SilentAfterStopped ==
    [][(lastcmd = "stop_agent" /\ hpc = "recv" /\ hsent = "stopped")
          => \A t \in TaskIds : ~Sends(t)]_vars

\* The background tasks of run_api commands with an unknown endpoint.
UnknownTasks ==
    {t \in ApiTasks : tasks[t].endpoint \notin {"buses", "contingency"}}

\* C36: the task of a run_api with an unknown endpoint never has a runner,
\* an automation session, a step of run() or an extraction result; it sends
\* nothing but the "Unknown API endpoint" error message, and has sent exactly
\* that when it has run to its end; no step of it constructs a runner; and
\* when it ends the session's API runner reference is None and the guard of
\* run_api is open.
C36_UnknownEndpoint ==
    /\ [](\A t \in UnknownTasks :
             /\ tasks[t].svc = None
             /\ tasks[t].handle = "none"
             /\ tasks[t].steps = {}
             /\ tasks[t].xresult = NoResult
             /\ tasks[t].status = "none"
             /\ IsPrefix(tasks[t].sent, <<"error">>)
             /\ tasks[t].pc = "done" => tasks[t].sent = <<"error">>)
    /\ [][\A t \in UnknownTasks :
             /\ tasks'[t].pc # tasks[t].pc => Len(svcs') = Len(svcs)
             /\ (InFlight(t) /\ tasks'[t].pc = "done")
                   => (api_service' = None /\ ~ApiGuard')]_vars

\* A run_api with an unknown endpoint was answered with the error message
\* and its task has ended; the run_api that followed was accepted and its
\* job is connecting on the only runner ever constructed.
C36_Witness ==
    /\ Len(tasks) = 2
    /\ 1 \in UnknownTasks
    /\ tasks[1].pc = "done"
    /\ tasks[1].sent = <<"error">>
    /\ tasks[2].endpoint = "buses"
    /\ tasks[2].pc = "connect"
    /\ Len(svcs) = 1
    /\ api_service = 1

\* The steps of run() after the connection, in the order of the code.
StepOrder == <<"configure", "dispatch", "collect", "oracle">>

\* How far run() has come: a run never goes back.
Rank(pc) ==
    CASE pc = "new" -> 0
      [] pc = "connect" -> 1
      [] pc = "dispatch" -> 2
      [] pc = "extract" -> 3
      [] pc = "teardown" -> 4
      [] OTHER -> 5

Logged(msg) == \E i \in DOMAIN runner.heap[runner.logs] :
                  runner.heap[runner.logs][i] = msg

\* The step enters `step` of run().
Enters(step) == step \notin observed.steps /\ step \in observed'.steps

Terminals(e) == {i \in DOMAIN e : e[i] \in {"agent_complete", "error"}}

\* C35: the messages an agent run yields. The first is the "connecting"
\* status; "running" is the second message or absent, and every message or
\* screenshot of the stream follows it; at most one terminal message
\* (agent_complete or error) is yielded, nothing follows it, and a run that
\* has ended has yielded one; and agent_complete is yielded when the engine's
\* stream ended, never in the step in which a result of the stream is
\* dropped because stop() was observed.
C35_AgentProtocol ==
    /\ [](runner.kind = "agent" =>
            LET e == observed.emitted
            IN /\ e # <<>> => e[1] = "connecting"
               /\ \A i \in DOMAIN e : e[i] = "running" => i = 2
               /\ \A i \in DOMAIN e :
                     e[i] \in ItemTypes => (Len(e) >= 2 /\ e[2] = "running" /\ i > 2)
               /\ Cardinality(Terminals(e)) <= 1
               /\ Terminals(e) \subseteq {Len(e)}
               /\ runner.pc = "done" => Terminals(e) # {})
    /\ [][observed'.emitted = Append(observed.emitted, "agent_complete")
            => runner'.results = runner.results]_vars

\* The result run() has returned is the runner's `result`; the entries its
\* list holds.
ResultLogs == runner.heap[runner.result.logs]

\* C38: the APIResult of a run. Its status is success or error; success
\* comes with data and a final screenshot and without an error, error with
\* an error and without data; its logs are the list run() bound to self.logs
\* at its start, not the constructor's list, beginning with the first entry
\* of the run; every entry handed to the subscriber is an entry of that list;
\* and the step that builds the result puts into it every entry logged up to
\* then, in order.
C38_ResultWellFormed ==
    /\ [](runner.result # NoRunResult =>
            /\ runner.result.status \in {"success", "error"}
            /\ runner.result.status = "success"
                  => /\ runner.result.data # "none"
                     /\ runner.result.error = "none"
                     /\ runner.result.final_screenshot # "none"
            /\ runner.result.status = "error"
                  => /\ runner.result.error # "none"
                     /\ runner.result.data = "none"
            /\ runner.result.logs = runner.logs
            /\ runner.result.logs # 1
            /\ ResultLogs # <<>>
            /\ ResultLogs[1] = "connecting"
            /\ \A i \in DOMAIN runner.log_tasks :
                  /\ runner.log_tasks[i].entry[1] = runner.result.logs
                  /\ runner.log_tasks[i].entry[2] \in DOMAIN ResultLogs)
    /\ [][(runner.result = NoRunResult /\ runner'.result # NoRunResult)
            => /\ IsPrefix(runner.heap[runner.logs], ResultLogs')
               /\ Len(ResultLogs') > Len(runner.heap[runner.logs])]_vars

\* A bus run with a subscriber returned its success result with the entries
\* of all five steps, and the teardown has ended.
C38_Witness ==
    /\ runner.kind = "bus"
    /\ runner.callback
    /\ runner.pc = "done"
    /\ runner.result.status = "success"
    /\ runner.result.data = "extracted"
    /\ observed.order = StepOrder
    /\ Len(ResultLogs) >= 10

\* C37: the lock is held only by a broadcast that is sending, no call waits
\* for the lock (in disconnect, or in the disconnects after a broadcast)
\* while it holds it, the registry does not change while the lock is held or
\* a broadcast is iterating, and every call eventually returns.
C37_LockDiscipline ==
    /\ [](/\ lock # None =>
                (calls[lock].kind = "broadcast" /\ calls[lock].pc = "send")
          /\ \A k \in Slots :
                /\ calls[k].pc \in {"lock", "cleanup"} => lock # k
                /\ (calls[k].kind = "broadcast" /\ calls[k].pc = "send")
                      => lock = k)
    /\ [][(lock # None \/ \E k \in Slots : calls[k].kind = "broadcast"
                                              /\ calls[k].pc = "send")
            => active_connections' = active_connections]_vars
    /\ \A k \in Slots : (calls[k] # Idle) ~> (calls[k] = Idle)

\* A broadcast holds the lock in the middle of its iteration, one send of it
\* having raised, while a send_json whose send raised waits for the lock.
C37_Witness ==
    \E k, j \in Slots :
       /\ lock = k
       /\ calls[k].kind = "broadcast"
       /\ calls[k].failed # <<>>
       /\ calls[k].todo # <<>>
       /\ calls[j].kind = "send_json"
       /\ calls[j].pc = "lock"

====
